---- MODULE Spec2Model ----
(***************************************************************************)
(* KULIM: Korean morphological analyzer and phonological processor.        *)
(*                                                                         *)
(* The module models                                                       *)
(*   - the dictionary engine: DoubleArrayTrie (grammar/trie_da.py) and the *)
(*     plain Aho-Corasick Trie (grammar/trie.py), with their caches;       *)
(*   - the analyzer: MorphAnalyzer / Stemmer lattice decoder;              *)
(*   - the pronunciation rule pipeline (pronunciation/engine.py).          *)
(*                                                                         *)
(* Strings are sequences of Unicode code points (Python's ord), a one-char *)
(* Jamo string is its code point, '' is 0 and None is -1.                  *)
(***************************************************************************)
EXTENDS Integers, Sequences, FiniteSets, TLC

VARIABLES dat,      \* the DoubleArrayTrie object
          pyt,      \* the plain Trie object (wrapped by PythonTrieFallback)
          inserted, \* the entries accepted by insert so far, in call order
          steps,    \* number of calls made so far
          last,     \* the last call: its name, argument and outcome
          analyzer, \* the MorphAnalyzer: its backend flag and, for the
                    \* properties, the lattice its last analyze decoded
          pool      \* the tasks of the analyze_batch call in progress, one
                    \* per sentence: its place in analyze and its outcome

vars == <<dat, pyt, inserted, steps, last, analyzer, pool>>

(***************************************************************************)
(* Generic helpers                                                         *)
(***************************************************************************)
Max2(a, b) == IF a >= b THEN a ELSE b
Min2(a, b) == IF a <= b THEN a ELSE b
SetMax(S) == CHOOSE x \in S : \A y \in S : y <= x
SetMin(S) == CHOOSE x \in S : \A y \in S : x <= y
Range(s) == {s[i] : i \in 1..Len(s)}
InSeq(x, s) == \E i \in 1..Len(s) : s[i] = x

\* Python slice s[a:b] for 0 <= a <= b <= len(s)
Slice(s, a, b) == SubSeq(s, a + 1, b)

\* all sequences over S of length 0..n
RECURSIVE SeqsUpTo(_, _)
SeqsUpTo(S, n) ==
  IF n = 0 THEN {<<>>}
  ELSE LET shorter == SeqsUpTo(S, n - 1)
       IN  shorter \cup {Append(s, c) : s \in {t \in shorter : Len(t) = n - 1}, c \in S}

\* list.append(x) guarded by "if x not in list"
AppendNew(s, x) == IF InSeq(x, s) THEN s ELSE Append(s, x)

RECURSIVE ExtendNew(_, _)
ExtendNew(s, xs) ==
  IF xs = <<>> THEN s ELSE ExtendNew(AppendNew(s, Head(xs)), Tail(xs))

\* the elements of a finite set of integers in ascending order
RECURSIVE SortedSeq(_)
SortedSeq(S) ==
  IF S = {} THEN <<>> ELSE LET m == SetMin(S) IN <<m>> \o SortedSeq(S \ {m})

(***************************************************************************)
(* Bounds and input universes                                              *)
(***************************************************************************)
MaxSteps == 3
MaxTextLen == 2

\* code points of "a" and "b"
Alphabet == {97, 98}

\* dictionary entries offered to insert: (word, pos, lemma); lemma <<>> is
\* the omitted argument
Entries ==
  { << <<97>>, "N", <<>> >>,
    << <<98, 97>>, "N", <<97>> >>,
    << <<98, 97>>, "V", <<>> >>,
    << <<98, 97, 98>>, "V", <<>> >> }

Texts == SeqsUpTo(Alphabet, MaxTextLen)

(***************************************************************************)
(* DoubleArrayTrie (grammar/trie_da.py)                                    *)
(***************************************************************************)
initial_size == 50000
margin_states == 1000
min_expansion == 10000
max_retry == 10
tail_reserve == 100
search_cache_max == 1000
char_code_limit == 65536

\* sparse arrays: an index outside the domain holds the fill value
Base(t, s)  == IF s \in DOMAIN t.base THEN t.base[s] ELSE -1
Check(t, s) == IF s \in DOMAIN t.check THEN t.check[s] ELSE -1
HasValue(t, s) == s \in DOMAIN t.value
Fail(t, s)  == IF s \in DOMAIN t.fail THEN t.fail[s] ELSE 0

Put(f, k, v) == [x \in (DOMAIN f) \cup {k} |-> IF x = k THEN v ELSE f[x]]

DoubleArrayTrie_init ==
  [ base |-> <<>>, check |-> <<>>, value |-> <<>>, fail |-> <<>>, len |-> 0,
    pos_fst |-> <<>>, lemma_fst |-> <<>>,
    build_data |-> <<>>, built |-> FALSE,
    search_cache |-> <<>>, exists_cache |-> <<>> ]

\* FST.encode / FST.decode: ids are handed out in order of first encode
FST_id(fst, str) == (CHOOSE i \in 1..Len(fst) : fst[i] = str) - 1
FST_known(fst, str) == InSeq(str, fst)
FST_decode(fst, id) == IF id + 1 \in 1..Len(fst) THEN fst[id + 1] ELSE <<>>

\* "lemma = lemma or word"
LemmaOr(lemma, word) == IF lemma = <<>> THEN word ELSE lemma

\* DoubleArrayTrie.insert: the outcome is [ok, t]
DAT_insert_unguarded(t, word, pos, lemma) ==
  [ok |-> TRUE,
   t  |-> [t EXCEPT !.build_data = Append(@, <<word, pos, LemmaOr(lemma, word)>>)]]

DAT_insert(t, word, pos, lemma) ==
  IF t.built
  THEN [ok |-> FALSE, t |-> t]
  ELSE [ok |-> TRUE,
        t  |-> [t EXCEPT !.build_data = Append(@, <<word, pos, LemmaOr(lemma, word)>>)]]

\* build step 1: word_patterns, an insertion-ordered dict word -> patterns
RECURSIVE WordList(_)
WordList(data) ==
  IF data = <<>> THEN <<>>
  ELSE AppendNew(WordList(SubSeq(data, 1, Len(data) - 1)), data[Len(data)][1])

RECURSIVE WordPatterns(_, _)
WordPatterns(data, w) ==
  IF data = <<>> THEN <<>>
  ELSE LET e == data[Len(data)]
           rest == WordPatterns(SubSeq(data, 1, Len(data) - 1), w)
       IN  IF e[1] = w THEN AppendNew(rest, <<e[2], e[3]>>) ELSE rest

\* build step 2 (_build_trie): the interning order of POS and lemma strings
RECURSIVE InternOrder(_, _, _)
InternOrder(data, wl, k) ==
  IF wl = <<>> THEN <<>>
  ELSE LET ps == WordPatterns(data, Head(wl))
       IN  [i \in 1..Len(ps) |-> ps[i][k]] \o InternOrder(data, Tail(wl), k)

BuildPosFst(data) == ExtendNew(<<>>, InternOrder(data, WordList(data), 1))
BuildLemmaFst(data) == ExtendNew(<<>>, InternOrder(data, WordList(data), 2))

\* the "__end__" payload of the temporary trie node reached by word w
EndPayload(data, w) ==
  LET ps == WordPatterns(data, w)
  IN  [i \in 1..Len(ps) |->
         <<FST_id(BuildPosFst(data), ps[i][1]), FST_id(BuildLemmaFst(data), ps[i][2])>>]

\* children of the temporary trie node at prefix p, in dict insertion order
RECURSIVE ChildrenFrom(_, _, _, _)
ChildrenFrom(wl, p, i, acc) ==
  IF i > Len(wl) THEN acc
  ELSE LET w == wl[i]
       IN  IF Len(w) > Len(p) /\ SubSeq(w, 1, Len(p)) = p
           THEN ChildrenFrom(wl, p, i + 1, AppendNew(acc, w[Len(p) + 1]))
           ELSE ChildrenFrom(wl, p, i + 1, acc)

TrieChildren(wl, p) == ChildrenFrom(wl, p, 1, <<>>)

\* _expand_arrays
ExpandArrays(len) == len + Max2(min_expansion, len \div 2)

RECURSIVE ExpandWhile(_, _)
ExpandWhile(len, need) ==
  IF len < need THEN ExpandWhile(ExpandArrays(len), need) ELSE len

\* _find_base: the first base under which every child lands on a free state
RECURSIVE FindBaseFrom(_, _, _, _, _)
FindBaseFrom(b, max_search, codes, used, len) ==
  IF b >= max_search THEN -1
  ELSE IF \A c \in codes : b + c < len /\ (b + c) \notin used
       THEN b
       ELSE FindBaseFrom(b + 1, max_search, codes, used, len)

FindBase(codes, used, len) ==
  IF codes = {} THEN 1
  ELSE FindBaseFrom(Max2(1, 1 - SetMin(codes)),
                    Min2(len - SetMax(codes) - 1, len - tail_reserve),
                    codes, used, len)

RECURSIVE RetryFindBase(_, _, _, _)
RetryFindBase(codes, used, len, retry_count) ==
  LET b == FindBase(codes, used, len)
  IN  IF b = -1 /\ retry_count < max_retry
      THEN RetryFindBase(codes, used, ExpandArrays(len), retry_count + 1)
      ELSE [base_value |-> b, len |-> len]

\* _construct_double_array: BFS over the temporary trie; queue holds
\* <<state, prefix>>; the result is [ok, base, check, value, len]
RECURSIVE ConstructLoop(_, _, _, _)
ConstructLoop(data, wl, queue, st) ==
  IF queue = <<>> THEN st
  ELSE
    LET current_state == Head(queue)[1]
        p == Head(queue)[2]
        st1 == IF InSeq(p, wl)
               THEN [st EXCEPT !.value = Put(@, current_state, EndPayload(data, p))]
               ELSE st
        children == TrieChildren(wl, p)
        codes == Range(children)
    IN  IF children = <<>> THEN ConstructLoop(data, wl, Tail(queue), st1)
        ELSE
          LET len1 == ExpandWhile(st1.len, SetMax(codes) + margin_states)
              fb == RetryFindBase(codes, st1.used, len1, 0)
          IN  IF fb.base_value = -1 THEN [st1 EXCEPT !.ok = FALSE]
              ELSE
                LET bv == fb.base_value
                    next_states == [i \in 1..Len(children) |-> bv + children[i]]
                    st2 == [st1 EXCEPT
                              !.len = fb.len,
                              !.base = Put(@, current_state, bv),
                              !.check = [s \in (DOMAIN @) \cup Range(next_states) |->
                                           IF s \in Range(next_states)
                                           THEN current_state ELSE @[s]],
                              !.used = @ \cup Range(next_states)]
                    q2 == Tail(queue) \o
                          [i \in 1..Len(children) |->
                             <<next_states[i], Append(p, children[i])>>]
                IN  ConstructLoop(data, wl, q2, st2)

\* _compress_arrays: cut the arrays after the last state whose check is set
CompressedLen(check) == IF DOMAIN check = {} THEN 1 ELSE SetMax(DOMAIN check) + 1

ConstructDoubleArray(data) ==
  LET st0 == [ok |-> TRUE, base |-> (0 :> 1), check |-> <<>>, value |-> <<>>,
              used |-> {0}, len |-> initial_size]
      Compress(st) == IF st.ok THEN [st EXCEPT !.len = CompressedLen(st.check)] ELSE st
  IN  Compress(ConstructLoop(data, WordList(data), << <<0, <<>> >> >>, st0))

\* _build_failure_links: state_children[parent], the character codes of the
\* parent's children in ascending order of child state
StateChildren(t, parent) ==
  LET kids == {s \in DOMAIN t.check :
                 /\ t.check[s] = parent
                 /\ parent < t.len
                 /\ Base(t, parent) # -1
                 /\ s - Base(t, parent) >= 0
                 /\ s - Base(t, parent) < char_code_limit}
      ss == SortedSeq(kids)
  IN  [i \in 1..Len(ss) |-> ss[i] - Base(t, parent)]

\* the failure target of the child reached by char_code from a state whose
\* own failure link is fail_state
RECURSIVE FailTarget(_, _, _, _)
FailTarget(t, fail, fail_state, char_code) ==
  IF fail_state = 0
  THEN IF Base(t, 0) # -1
       THEN LET root_next == Base(t, 0) + char_code
            IN  IF 0 < root_next /\ root_next < t.len /\ Check(t, root_next) = 0
                THEN root_next ELSE 0
       ELSE 0
  ELSE LET fail_next == Base(t, fail_state) + char_code
       IN  IF 0 < fail_next /\ fail_next < t.len /\ Check(t, fail_next) = fail_state
           THEN fail_next
           ELSE FailTarget(t, fail,
                  IF fail_state \in DOMAIN fail THEN fail[fail_state] ELSE 0, char_code)

\* the merge of the failure target's patterns into the child's value
MergeFailValue(value, next_state, fail_target, len) ==
  IF fail_target # 0 /\ fail_target < len /\ fail_target \in DOMAIN value
  THEN Put(value, next_state,
           ExtendNew(IF next_state \in DOMAIN value THEN value[next_state] ELSE <<>>,
                     value[fail_target]))
  ELSE value

\* the inner loop over the children of one dequeued state; acc is
\* [queue, fail, value]
RECURSIVE FailChildren(_, _, _, _)
FailChildren(t, state, codes, acc) ==
  IF codes = <<>> THEN acc
  ELSE
    LET char_code == Head(codes)
        next_state == Base(t, state) + char_code
    IN  IF next_state >= t.len \/ Check(t, next_state) # state
        THEN FailChildren(t, state, Tail(codes), acc)
        ELSE
          LET ft == FailTarget(t, acc.fail,
                      IF state \in DOMAIN acc.fail THEN acc.fail[state] ELSE 0,
                      char_code)
          IN  FailChildren(t, state, Tail(codes),
                [queue |-> Append(acc.queue, next_state),
                 fail  |-> Put(acc.fail, next_state, ft),
                 value |-> MergeFailValue(acc.value, next_state, ft, t.len)])

RECURSIVE FailBFS(_, _)
FailBFS(t, acc) ==
  IF acc.queue = <<>> THEN acc
  ELSE
    LET state == Head(acc.queue)
        rest == [acc EXCEPT !.queue = Tail(@)]
    IN  IF state >= t.len \/ Base(t, state) = -1
        THEN FailBFS(t, rest)
        ELSE FailBFS(t, FailChildren(t, state, StateChildren(t, state), rest))

BuildFailureLinks(t) ==
  LET rc == StateChildren(t, 0)
      roots == [i \in 1..Len(rc) |-> Base(t, 0) + rc[i]]
      q0 == SelectSeq(roots, LAMBDA s : 0 < s /\ s < t.len /\ Check(t, s) = 0)
      acc == FailBFS(t, [queue |-> q0,
                         fail  |-> [s \in Range(q0) |-> 0],
                         value |-> t.value])
  IN  [t EXCEPT !.fail = acc.fail, !.value = acc.value]

\* DoubleArrayTrie.build: the outcome is [ok, t]; ok = FALSE is the
\* RuntimeError "Cannot allocate BASE"
DAT_build(t) ==
  IF t.built THEN [ok |-> TRUE, t |-> t]
  ELSE IF t.build_data = <<>> THEN [ok |-> TRUE, t |-> t]
  ELSE
    LET Links(t1) == [BuildFailureLinks(t1) EXCEPT !.build_data = <<>>, !.built = TRUE]
        Finish(da) ==
          IF ~da.ok
          THEN [ok |-> FALSE,
                t  |-> [t EXCEPT !.base = da.base, !.check = da.check,
                                 !.value = da.value, !.len = da.len]]
          ELSE [ok |-> TRUE,
                t  |-> Links([t EXCEPT !.base = da.base, !.check = da.check,
                                       !.value = da.value, !.len = da.len,
                                       !.pos_fst = BuildPosFst(t.build_data),
                                       !.lemma_fst = BuildLemmaFst(t.build_data)])]
    IN  Finish(ConstructDoubleArray(t.build_data))

\* _traverse: the final state of the walk along word, or -1 for None
RECURSIVE TraverseFrom(_, _, _)
TraverseFrom(t, state, word) ==
  IF word = <<>> THEN state
  ELSE IF state >= t.len \/ Base(t, state) = -1 THEN -1
  ELSE LET next_state == Base(t, state) + Head(word)
       IN  IF next_state >= t.len \/ Check(t, next_state) # state THEN -1
           ELSE TraverseFrom(t, next_state, Tail(word))

Traverse(t, word) ==
  IF ~t.built THEN -1
  ELSE LET state == TraverseFrom(t, 0, word)
       IN  IF state # -1 /\ state < t.len /\ HasValue(t, state) THEN state ELSE -1

DecodePatterns(t, ids) ==
  [i \in 1..Len(ids) |->
     <<FST_decode(t.pos_fst, ids[i][1]), FST_decode(t.lemma_fst, ids[i][2])>>]

\* _verify_pattern
DAT_verify_pattern(t, word, pos, lemma) ==
  LET state == Traverse(t, word)
  IN  /\ state # -1
      /\ state < t.len /\ HasValue(t, state)
      /\ FST_known(t.pos_fst, pos) /\ FST_known(t.lemma_fst, lemma)
      /\ InSeq(<<FST_id(t.pos_fst, pos), FST_id(t.lemma_fst, lemma)>>, t.value[state])

\* pattern_groups: a defaultdict(list) keyed by match length, in key
\* insertion order; each entry is <<length, patterns>>
GroupAdd(groups, length, pat) ==
  IF \E k \in 1..Len(groups) : groups[k][1] = length
  THEN [k \in 1..Len(groups) |->
          IF groups[k][1] = length
          THEN <<length, Append(groups[k][2], pat)>> ELSE groups[k]]
  ELSE Append(groups, <<length, <<pat>> >>)

\* for every found pattern, the shortest suffix ending at i that verifies
\* takes the pattern ("break" after the first hit)
RECURSIVE GroupFound(_, _, _, _, _)
GroupFound(Verify(_, _, _), text, i, found, groups) ==
  IF found = <<>> THEN groups
  ELSE
    LET pat == Head(found)
        hits == {length \in 1..(i + 1) :
                   Verify(Slice(text, i - length + 1, i + 1), pat[1], pat[2])}
    IN  GroupFound(Verify, text, i, Tail(found),
                   IF hits = {} THEN groups ELSE GroupAdd(groups, SetMin(hits), pat))

\* "results.append((start, end, patterns))" for each group
EmitGroups(groups, i) ==
  [k \in 1..Len(groups) |-> <<i - groups[k][1] + 1, i + 1, groups[k][2]>>]

\* the goto step of search_all_patterns: follow failure links until char_code
\* can be consumed; hit = FALSE is the "continue" at the root
RECURSIVE DAT_goto(_, _, _)
DAT_goto(t, state, char_code) ==
  IF state # 0
  THEN LET next_state == Base(t, state) + char_code
       IN  IF 0 < next_state /\ next_state < t.len /\ Check(t, next_state) = state
           THEN [state |-> next_state, hit |-> TRUE]
           ELSE DAT_goto(t, Fail(t, state), char_code)
  ELSE IF Base(t, 0) # -1
       THEN LET next_state == Base(t, 0) + char_code
            IN  IF 0 < next_state /\ next_state < t.len /\ Check(t, next_state) = 0
                THEN [state |-> next_state, hit |-> TRUE]
                ELSE [state |-> 0, hit |-> FALSE]
       ELSE [state |-> 0, hit |-> FALSE]

\* found_patterns: the decoded values along the failure chain
RECURSIVE DAT_found(_, _)
DAT_found(t, temp_state) ==
  IF temp_state = 0 THEN <<>>
  ELSE (IF temp_state < t.len /\ HasValue(t, temp_state)
        THEN DecodePatterns(t, t.value[temp_state]) ELSE <<>>)
       \o DAT_found(t, Fail(t, temp_state))

RECURSIVE DAT_scan(_, _, _, _, _)
DAT_scan(t, text, i, state, results) ==
  IF i >= Len(text) THEN results
  ELSE
    LET g == DAT_goto(t, state, text[i + 1])
    IN  IF ~g.hit THEN DAT_scan(t, text, i + 1, 0, results)
        ELSE
          LET found == DAT_found(t, g.state)
              Verify(w, pos, lemma) == DAT_verify_pattern(t, w, pos, lemma)
              groups == GroupFound(Verify, text, i, found, <<>>)
          IN  DAT_scan(t, text, i + 1, g.state, results \o EmitGroups(groups, i))

\* "if not self._built: self.build()"
DAT_ensure_built(t) == IF t.built THEN [ok |-> TRUE, t |-> t] ELSE DAT_build(t)

\* DoubleArrayTrie.search_all_patterns: the outcome is [ok, exc, result, cached, t]
DAT_search_all_patterns(t0, text) ==
  LET Store(t, results) ==
        [ok |-> TRUE, exc |-> "", result |-> results, cached |-> FALSE,
         t  |-> IF Cardinality(DOMAIN t.search_cache) < search_cache_max
                THEN [t EXCEPT !.search_cache = Put(@, text, results)]
                ELSE t]
      Search(b) ==
        IF ~b.ok
        THEN [ok |-> FALSE, exc |-> "RuntimeError", result |-> <<>>, cached |-> FALSE,
              t |-> b.t]
        ELSE IF text \in DOMAIN b.t.search_cache
        THEN [ok |-> TRUE, exc |-> "", result |-> b.t.search_cache[text], cached |-> TRUE,
              t |-> b.t]
        ELSE IF b.t.len = 0 /\ text # <<>>
        THEN [ok |-> FALSE, exc |-> "IndexError", result |-> <<>>, cached |-> FALSE,
              t |-> b.t]
        ELSE Store(b.t, DAT_scan(b.t, text, 0, 0, <<>>))
  IN  Search(DAT_ensure_built(t0))

\* DoubleArrayTrie.exists
DAT_exists(t0, word) ==
  LET Store(t, result) ==
        [ok |-> TRUE, exc |-> "", result |-> result, cached |-> FALSE,
         t  |-> [t EXCEPT !.exists_cache = Put(@, word, result)]]
      Lookup(b) ==
        IF ~b.ok
        THEN [ok |-> FALSE, exc |-> "RuntimeError", result |-> FALSE, cached |-> FALSE,
              t |-> b.t]
        ELSE IF word \in DOMAIN b.t.exists_cache
        THEN [ok |-> TRUE, exc |-> "", result |-> b.t.exists_cache[word], cached |-> TRUE,
              t |-> b.t]
        ELSE Store(b.t, Traverse(b.t, word) # -1)
  IN  Lookup(DAT_ensure_built(t0))

\* DoubleArrayTrie.get_patterns / search
DAT_get_patterns(t0, word) ==
  LET Decode(t, state) == IF state = -1 THEN <<>> ELSE DecodePatterns(t, t.value[state])
      Lookup(b) ==
        IF ~b.ok THEN [ok |-> FALSE, exc |-> "RuntimeError", result |-> <<>>, t |-> b.t]
        ELSE [ok |-> TRUE, exc |-> "", result |-> Decode(b.t, Traverse(b.t, word)),
              t |-> b.t]
  IN  Lookup(DAT_ensure_built(t0))

(***************************************************************************)
(* Plain Trie (grammar/trie.py); a node is the string that leads to it     *)
(***************************************************************************)
lru_capacity == 1000

Trie_init ==
  [ nodes |-> {<<>>}, is_end |-> {}, patterns |-> <<>>, fail |-> <<>>,
    ac_built |-> FALSE, match_cache |-> <<>>, word_count |-> 0 ]

NodePatterns(t, n) == IF n \in DOMAIN t.patterns THEN t.patterns[n] ELSE <<>>
Prefixes(word) == {SubSeq(word, 1, k) : k \in 0..Len(word)}
HasChild(t, n, ch) == Append(n, ch) \in t.nodes

\* Trie.insert
Trie_insert(t, word, pos, lemma) ==
  [t EXCEPT !.nodes = @ \cup Prefixes(word),
            !.word_count = IF word \in t.is_end THEN @ ELSE @ + 1,
            !.is_end = @ \cup {word},
            !.patterns = Put(@, word,
                             AppendNew(NodePatterns(t, word), <<pos, LemmaOr(lemma, word)>>)),
            !.ac_built = FALSE]

\* the failure link of child = current + ch, given the links set so far
RECURSIVE Trie_fail_walk(_, _, _, _)
Trie_fail_walk(t, fail, fail_node, ch) ==
  IF fail_node # <<>> /\ ~HasChild(t, fail_node, ch)
  THEN Trie_fail_walk(t, fail, fail[fail_node], ch)
  ELSE fail_node

Trie_fail_of(t, fail, child) ==
  LET current == SubSeq(child, 1, Len(child) - 1)
      ch == child[Len(child)]
      fail_node == Trie_fail_walk(t, fail, fail[current], ch)
  IN  IF HasChild(t, fail_node, ch) /\ Append(fail_node, ch) # child
      THEN Append(fail_node, ch) ELSE <<>>

\* the BFS of build_aho_corasick, one depth at a time: the links and merged
\* patterns of depth d depend only on the shallower nodes
RECURSIVE Trie_build_level(_, _, _)
Trie_build_level(t, acc, d) ==
  LET level == {n \in t.nodes : Len(n) = d}
  IN  IF level = {} THEN acc
      ELSE
        LET fail1 == [n \in (DOMAIN acc.fail) \cup level |->
                        IF n \in level THEN Trie_fail_of(t, acc.fail, n) ELSE acc.fail[n]]
            pats1 == [n \in (DOMAIN acc.patterns) \cup level |->
                        LET own == IF n \in DOMAIN acc.patterns THEN acc.patterns[n] ELSE <<>>
                        IN  IF n \in level /\ fail1[n] \in t.is_end
                            THEN ExtendNew(own,
                                   IF fail1[n] \in DOMAIN acc.patterns
                                   THEN acc.patterns[fail1[n]] ELSE <<>>)
                            ELSE own]
        IN  Trie_build_level(t, [fail |-> fail1, patterns |-> pats1], d + 1)

\* Trie.build_aho_corasick
Trie_build_aho_corasick(t) ==
  IF t.ac_built THEN t
  ELSE
    LET top == {n \in t.nodes : Len(n) <= 1}
        fail0 == [n \in (DOMAIN t.fail) \cup top |->
                    IF n \in top THEN <<>> ELSE t.fail[n]]
        acc == Trie_build_level(t, [fail |-> fail0, patterns |-> t.patterns], 2)
    IN  [t EXCEPT !.fail = acc.fail, !.patterns = acc.patterns,
                  !.ac_built = TRUE, !.match_cache = <<>>]

\* Trie._verify_pattern
Trie_verify_pattern(t, word, pos, lemma) ==
  /\ word \in t.nodes
  /\ word \in t.is_end
  /\ InSeq(<<pos, lemma>>, NodePatterns(t, word))

\* Trie.exists
Trie_exists(t, word) == word \in t.nodes /\ word \in t.is_end

RECURSIVE Trie_goto(_, _, _)
Trie_goto(t, node, ch) ==
  IF node # <<>> /\ ~HasChild(t, node, ch)
  THEN Trie_goto(t, t.fail[node], ch)
  ELSE IF HasChild(t, node, ch)
       THEN [node |-> Append(node, ch), hit |-> TRUE]
       ELSE [node |-> <<>>, hit |-> FALSE]

RECURSIVE Trie_found(_, _)
Trie_found(t, temp_node) ==
  IF temp_node = <<>> THEN <<>>
  ELSE (IF temp_node \in t.is_end THEN NodePatterns(t, temp_node) ELSE <<>>)
       \o Trie_found(t, t.fail[temp_node])

RECURSIVE Trie_scan(_, _, _, _, _)
Trie_scan(t, text, i, node, results) ==
  IF i >= Len(text) THEN results
  ELSE
    LET g == Trie_goto(t, node, text[i + 1])
    IN  IF ~g.hit THEN Trie_scan(t, text, i + 1, <<>>, results)
        ELSE
          LET found == Trie_found(t, g.node)
              Verify(w, pos, lemma) == Trie_verify_pattern(t, w, pos, lemma)
              groups == GroupFound(Verify, text, i, found, <<>>)
          IN  Trie_scan(t, text, i + 1, g.node, results \o EmitGroups(groups, i))

\* LRUCache: a sequence of <<key, value>>, least recently used first
LRU_has(cache, key) == \E k \in 1..Len(cache) : cache[k][1] = key
LRU_value(cache, key) == cache[CHOOSE k \in 1..Len(cache) : cache[k][1] = key][2]
LRU_without(cache, key) == SelectSeq(cache, LAMBDA e : e[1] # key)
LRU_get(cache, key) == Append(LRU_without(cache, key), <<key, LRU_value(cache, key)>>)
LRU_put(cache, key, value) ==
  LET c == Append(LRU_without(cache, key), <<key, value>>)
  IN  IF Len(c) > lru_capacity THEN Tail(c) ELSE c

\* Trie.search_all_patterns: the outcome is [ok, exc, result, cached, t]
Trie_search_all_patterns(t0, text) ==
  LET Store(t, results) ==
        [ok |-> TRUE, exc |-> "", result |-> results, cached |-> FALSE,
         t  |-> [t EXCEPT !.match_cache = LRU_put(@, text, results)]]
      Search(t) == Store(t, Trie_scan(t, text, 0, <<>>, <<>>))
  IN  IF LRU_has(t0.match_cache, text)
      THEN [ok |-> TRUE, exc |-> "", result |-> LRU_value(t0.match_cache, text),
            cached |-> TRUE,
            t  |-> [t0 EXCEPT !.match_cache = LRU_get(@, text)]]
      ELSE Search(Trie_build_aho_corasick(t0))

(***************************************************************************)
(* The dictionary engine as a state machine: a client calls insert, build, *)
(* exists, search and search_all_patterns in any order.                    *)
(***************************************************************************)
NoCall == [op |-> "none", arg |-> <<>>, ok |-> TRUE, exc |-> "", result |-> <<>>,
           cached |-> FALSE]
Effective(e) == <<e[1], e[2], LemmaOr(e[3], e[1])>>
NoAnalyzer == [use_double_array |-> TRUE, decoded |-> <<>>]

InitTries ==
  /\ dat = DoubleArrayTrie_init
  /\ pyt = Trie_init
  /\ inserted = <<>>
  /\ steps = 0
  /\ last = NoCall
  /\ analyzer = NoAnalyzer
  /\ pool = <<>>

\* ---- DoubleArrayTrie ----
DATInsert ==
  \E e \in Entries :
    \E r \in {DAT_insert(dat, e[1], e[2], e[3])} :
        /\ steps < MaxSteps
        /\ dat' = r.t
        /\ inserted' = IF r.ok THEN Append(inserted, Effective(e)) ELSE inserted
        /\ steps' = steps + 1
        /\ last' = [op |-> "insert", arg |-> e, ok |-> r.ok,
                    exc |-> IF r.ok THEN "" ELSE "RuntimeError", result |-> <<>>,
                    cached |-> FALSE]
        /\ UNCHANGED <<pyt, analyzer, pool>>

DATBuild ==
  \E r \in {DAT_build(dat)} :
    /\ steps < MaxSteps
    /\ dat' = r.t
    /\ steps' = steps + 1
    /\ last' = [op |-> "build", arg |-> <<>>, ok |-> r.ok,
                exc |-> IF r.ok THEN "" ELSE "RuntimeError", result |-> <<>>,
                cached |-> FALSE]
    /\ UNCHANGED <<pyt, inserted, analyzer, pool>>

DATExists ==
  \E w \in Texts :
    \E r \in {DAT_exists(dat, w)} :
        /\ steps < MaxSteps
        /\ dat' = r.t
        /\ steps' = steps + 1
        /\ last' = [op |-> "exists", arg |-> w, ok |-> r.ok, exc |-> r.exc,
                    result |-> r.result, cached |-> r.cached]
        /\ UNCHANGED <<pyt, inserted, analyzer, pool>>

DATSearch ==
  \E w \in Texts :
    \E r \in {DAT_get_patterns(dat, w)} :
        /\ steps < MaxSteps
        /\ dat' = r.t
        /\ steps' = steps + 1
        /\ last' = [op |-> "search", arg |-> w, ok |-> r.ok, exc |-> r.exc,
                    result |-> r.result, cached |-> FALSE]
        /\ UNCHANGED <<pyt, inserted, analyzer, pool>>

DATSearchAll ==
  \E text \in Texts :
    \E r \in {DAT_search_all_patterns(dat, text)} :
        /\ steps < MaxSteps
        /\ dat' = r.t
        /\ steps' = steps + 1
        /\ last' = [op |-> "search_all", arg |-> text, ok |-> r.ok, exc |-> r.exc,
                    result |-> r.result, cached |-> r.cached]
        /\ UNCHANGED <<pyt, inserted, analyzer, pool>>

NextDAT == DATInsert \/ DATBuild \/ DATExists \/ DATSearch \/ DATSearchAll
SpecDAT == InitTries /\ [][NextDAT]_vars

\* ---- PythonTrieFallback over the plain Trie ----
TrieInsert ==
  \E e \in Entries :
    /\ steps < MaxSteps
    /\ pyt' = Trie_insert(pyt, e[1], e[2], e[3])
    /\ inserted' = Append(inserted, Effective(e))
    /\ steps' = steps + 1
    /\ last' = [op |-> "insert", arg |-> e, ok |-> TRUE, exc |-> "", result |-> <<>>,
                cached |-> FALSE]
    /\ UNCHANGED <<dat, analyzer, pool>>

TrieBuild ==
  /\ steps < MaxSteps
  /\ pyt' = Trie_build_aho_corasick(pyt)
  /\ steps' = steps + 1
  /\ last' = [op |-> "build", arg |-> <<>>, ok |-> TRUE, exc |-> "", result |-> <<>>,
              cached |-> FALSE]
  /\ UNCHANGED <<dat, inserted, analyzer, pool>>

TrieExists ==
  \E w \in Texts :
    /\ steps < MaxSteps
    /\ steps' = steps + 1
    /\ last' = [op |-> "exists", arg |-> w, ok |-> TRUE, exc |-> "",
                result |-> Trie_exists(pyt, w), cached |-> FALSE]
    /\ UNCHANGED <<dat, pyt, inserted, analyzer, pool>>

TrieSearchAll ==
  \E text \in Texts :
    \E r \in {Trie_search_all_patterns(pyt, text)} :
        /\ steps < MaxSteps
        /\ pyt' = r.t
        /\ steps' = steps + 1
        /\ last' = [op |-> "search_all", arg |-> text, ok |-> r.ok, exc |-> r.exc,
                    result |-> r.result, cached |-> r.cached]
        /\ UNCHANGED <<dat, inserted, analyzer, pool>>

NextTrie == TrieInsert \/ TrieBuild \/ TrieSearchAll \/ TrieExists
SpecTrie == InitTries /\ [][NextTrie]_vars

(***************************************************************************)
(* Properties of the dictionary engine                                     *)
(***************************************************************************)
Keys == {inserted[k][1] : k \in 1..Len(inserted)}
PatternsOf(word) ==
  {<<inserted[k][2], inserted[k][3]>> : k \in {n \in 1..Len(inserted) : inserted[n][1] = word}}
KeyPairs(text) ==
  {p \in (0..Len(text)) \X (0..Len(text)) : p[1] < p[2] /\ Slice(text, p[1], p[2]) \in Keys}
NoRepeat(s) == \A m, n \in 1..Len(s) : m # n => s[m] # s[n]

\* C2: after inserts followed by build, exists(s) computed on the built
\* double-array trie is true if and only if s was the surface of an insert
C2_ExistsIffInserted ==
  (last.op = "exists" /\ last.ok /\ ~last.cached /\ dat.built)
    => (last.result <=> last.arg \in Keys)

\* C3: search_all_patterns(text) emits (i, j-i, patterns of text[i..j]) for
\* every 0 <= i < j <= |text| with text[i..j] an inserted surface, and
\* nothing for any other pair
C3_EmitsExactlyKeySubstrings ==
  (last.op = "search_all" /\ last.ok /\ ~last.cached)
    => /\ \A p \in KeyPairs(last.arg) :
            \E k \in 1..Len(last.result) :
              /\ last.result[k][1] = p[1]
              /\ last.result[k][2] = p[2] - p[1]
              /\ Range(last.result[k][3]) = PatternsOf(Slice(last.arg, p[1], p[2]))
       /\ \A k \in 1..Len(last.result) :
            <<last.result[k][1], last.result[k][1] + last.result[k][2]>> \in KeyPairs(last.arg)

\* C4: every search_all_patterns(text) call returns what a trie holding the
\* same inserted entries with an empty cache returns
RECURSIVE TrieOf(_)
TrieOf(entries) ==
  IF entries = <<>> THEN Trie_init
  ELSE LET e == entries[Len(entries)]
       IN  Trie_insert(TrieOf(SubSeq(entries, 1, Len(entries) - 1)), e[1], e[2], e[3])
C4_CacheTransparent ==
  last.op = "search_all"
    => last.result = Trie_search_all_patterns(TrieOf(inserted), last.arg).result

\* C7: insert on a built double-array trie raises and leaves the trie as it
\* was: every exists, search and search_all_patterns call answers as before
C7_InsertAfterBuildRejected ==
  [][(dat.built /\ last'.op = "insert" /\ steps' = steps + 1)
       => /\ ~last'.ok
          /\ last'.exc = "RuntimeError"
          /\ \A w \in Texts :
               /\ DAT_exists(dat', w).result = DAT_exists(dat, w).result
               /\ DAT_get_patterns(dat', w).result = DAT_get_patterns(dat, w).result
               /\ DAT_search_all_patterns(dat', w).result
                    = DAT_search_all_patterns(dat, w).result]_vars
C7_Witness ==
  last.op = "insert" /\ ~last.ok /\ last.exc = "RuntimeError" /\ dat.built /\ inserted # <<>>

\* C9: the triples (start, end, patterns) come by end ascending and, within
\* one end, by length ascending; no triple and no pattern inside a triple
\* is emitted twice
C9_OrderedNoDuplicates ==
  (last.op = "search_all" /\ last.ok)
    => /\ \A m, n \in 1..Len(last.result) :
            m < n => \/ last.result[m][2] < last.result[n][2]
                     \/ /\ last.result[m][2] = last.result[n][2]
                        /\ last.result[m][1] >= last.result[n][1]
       /\ NoRepeat(last.result)
       /\ \A k \in 1..Len(last.result) : NoRepeat(last.result[k][3])

(***************************************************************************)
(* Hangul syllable arithmetic (hangul/hangul.py).  A Jamo is the code      *)
(* point of its compatibility letter, '' is 0 and None is -1.              *)
(***************************************************************************)
HANGUL_BASE == 44032
HANGUL_END == 55203

\* ㄱ ㄲ ㄴ ㄷ ㄸ ㄹ ㅁ ㅂ ㅃ ㅅ ㅆ ㅇ ㅈ ㅉ ㅊ ㅋ ㅌ ㅍ ㅎ
CHOSUNG ==
  <<12593, 12594, 12596, 12599, 12600, 12601, 12609,
    12610, 12611, 12613, 12614, 12615, 12616, 12617,
    12618, 12619, 12620, 12621, 12622>>

\* ㅏ ㅐ ㅑ ㅒ ㅓ ㅔ ㅕ ㅖ ㅗ ㅘ ㅙ ㅚ ㅛ ㅜ ㅝ ㅞ ㅟ ㅠ ㅡ ㅢ ㅣ
JUNGSUNG ==
  <<12623, 12624, 12625, 12626, 12627, 12628, 12629,
    12630, 12631, 12632, 12633, 12634, 12635, 12636,
    12637, 12638, 12639, 12640, 12641, 12642, 12643>>

\* '' ㄱ ㄲ ㄳ ㄴ ㄵ ㄶ ㄷ ㄹ ㄺ ㄻ ㄼ ㄽ ㄾ ㄿ ㅀ ㅁ ㅂ ㅄ ㅅ ㅆ ㅇ ㅈ ㅊ ㅋ ㅌ ㅍ ㅎ
JONGSUNG ==
  <<0, 12593, 12594, 12595, 12596, 12597, 12598,
    12599, 12601, 12602, 12603, 12604, 12605, 12606,
    12607, 12608, 12609, 12610, 12612, 12613, 12614,
    12615, 12616, 12618, 12619, 12620, 12621, 12622>>

\* list.index(x), counted from 1
IndexOf(list, x) == CHOOSE k \in 1..Len(list) : list[k] = x

StartsWith(s, prefix) ==
  Len(prefix) <= Len(s) /\ SubSeq(s, 1, Len(prefix)) = prefix

\* decompose(ch) of a one-character string: <<cho, jung, jong>>
decompose(ch) ==
  LET code == ch - HANGUL_BASE
      jong == code % 28
      jung == ((code - jong) \div 28) % 21
      cho  == ((code - jong) \div 28) \div 21
  IN  IF 0 <= code /\ code <= HANGUL_END - HANGUL_BASE
      THEN <<CHOSUNG[cho + 1], JUNGSUNG[jung + 1], JONGSUNG[jong + 1]>>
      ELSE IF (4352 <= ch /\ ch <= 4447) \/ (43360 <= ch /\ ch <= 43391)
      THEN <<ch, 0, 0>>
      ELSE IF (4448 <= ch /\ ch <= 4514) \/ (55216 <= ch /\ ch <= 55238)
      THEN <<0, ch, 0>>
      ELSE IF (4520 <= ch /\ ch <= 4601) \/ (55243 <= ch /\ ch <= 55291)
      THEN <<0, 0, ch>>
      ELSE IF (12593 <= ch /\ ch <= 12622) \/ (12645 <= ch /\ ch <= 12686)
      THEN <<ch, 0, 0>>
      ELSE IF 12623 <= ch /\ ch <= 12643
      THEN <<0, ch, 0>>
      ELSE <<-1, -1, -1>>

\* compose(cho, jung, jong): the syllable's code point, -1 for None
compose(cho, jung, jong) ==
  IF cho \in {-1, 0} \/ jung \in {-1, 0} THEN -1
  ELSE IF ~InSeq(cho, CHOSUNG) \/ ~InSeq(jung, JUNGSUNG) THEN -1
  ELSE HANGUL_BASE + (IndexOf(CHOSUNG, cho) - 1) * 588
                   + (IndexOf(JUNGSUNG, jung) - 1) * 28
                   + (IF InSeq(jong, JONGSUNG) THEN IndexOf(JONGSUNG, jong) - 1 ELSE 0)

(***************************************************************************)
(* Irregular conjugation (grammar/irregular.py).  A restore_* outcome is   *)
(* [exc, val]: val is <<stem, ending>>, or <<>> for None.                  *)
(***************************************************************************)
\* IrregularConjugation.__init__: the keys of each stem dict, in insertion order
\* b_irregular (the keys, in insertion order): 돕 곱 눕 줍 굽 가깝 고맙 즐겁 아름답 무겁 차갑 뜨겁 반갑 어렵 쉽 더럽 무섭 귀엽 부끄럽
\* d_irregular: 듣 걷 묻 싣 깨닫
\* s_irregular: 짓 낫 잇 붓
\* h_irregular: 그렇 이렇 저렇 어떻 하얗 까맣 빨갛 파랗 노랗
\* reu_irregular: 부르 오르 다르 빠르 이르 모르 흐르 기르
\* eu_irregular: 쓰 끄 크 뜨 잠그 기쁘 슬프 바쁘 아프
IrregularConjugation ==
  [
    b_irregular |-> << <<46037>>, <<44273>>, <<45589>>, <<51469>>, <<44413>>,
                       <<44032, 44637>>, <<44256, 47577>>, <<51600, 44161>>,
                       <<50500, 47492, 45813>>, <<47924, 44161>>, <<52264, 44049>>,
                       <<46888, 44161>>, <<48152, 44049>>, <<50612, 47157>>, <<49789>>,
                       <<45908, 47101>>, <<47924, 49453>>, <<44480, 50685>>,
                       <<48512, 45124, 47101>> >>,
    d_irregular |-> << <<46307>>, <<44151>>, <<47931>>, <<49891>>, <<44648, 45803>> >>,
    s_irregular |-> << <<51667>>, <<45227>>, <<51079>>, <<48531>> >>,
    h_irregular |-> << <<44536, 47111>>, <<51060, 47111>>, <<51200, 47111>>,
                       <<50612, 46523>>, <<54616, 50583>>, <<44620, 47587>>,
                       <<48744, 44059>>, <<54028, 46999>>, <<45432, 46999>> >>,
    reu_irregular |-> << <<48512, 47476>>, <<50724, 47476>>, <<45796, 47476>>,
                         <<48736, 47476>>, <<51060, 47476>>, <<47784, 47476>>,
                         <<55120, 47476>>, <<44592, 47476>> >>,
    eu_irregular |-> << <<50416>>, <<45124>>, <<53356>>, <<46888>>, <<51104, 44536>>,
                        <<44592, 49240>>, <<49836, 54532>>, <<48148, 49240>>,
                        <<50500, 54532>> >> ]

Returns(v) == [exc |-> "", val |-> v]
Raises(e) == [exc |-> e, val |-> <<>>]

\* one "if surface.endswith(suffix):" block of restore_b_irregular
B_block(surface, suffix, ending) ==
  LET base == Slice(surface, 0, Len(surface) - 1)
      Stem(stem_last) ==
        IF stem_last = -1 THEN Raises("TypeError")
        ELSE LET stem == Slice(base, 0, Len(base) - 1) \o <<stem_last>>
             IN  IF InSeq(stem, IrregularConjugation.b_irregular)
                 THEN Returns(<<stem, ending>>)
                 ELSE Returns(<<>>)
      Last(d) == Stem(compose(d[1], d[2], 12610))
  IN  IF surface = <<>> \/ surface[Len(surface)] # suffix \/ base = <<>>
      THEN Returns(<<>>)
      ELSE Last(decompose(base[Len(base)]))

restore_b_irregular(surface) ==
  LET Then(r, suffix, ending) ==
        IF r.exc # "" \/ r.val # <<>> THEN r ELSE B_block(surface, suffix, ending)
  IN  Then(Then(Then(B_block(surface, 50752, <<50500>>),
                     50892, <<50612>>), 50864, <<50612>>), 50868, <<51008>>)

restore_d_irregular(surface) ==
  LET RECURSIVE Loop(_)
      Loop(k) ==
        IF k > Len(IrregularConjugation.d_irregular) THEN <<>>
        ELSE LET stem == IrregularConjugation.d_irregular[k]
                 Try(d) ==
                   IF d[3] # 12599 THEN Loop(k + 1)
                   ELSE LET stem_prefix == Slice(stem, 0, Len(stem) - 1)
                                             \o <<compose(d[1], d[2], 12601)>>
                        IN  IF StartsWith(surface, stem_prefix)
                            THEN <<stem, Slice(surface, Len(stem_prefix), Len(surface))>>
                            ELSE Loop(k + 1)
             IN  Try(decompose(stem[Len(stem)]))
  IN  Loop(1)

restore_s_irregular(surface) ==
  LET RECURSIVE Loop(_)
      Loop(k) ==
        IF k > Len(IrregularConjugation.s_irregular) THEN <<>>
        ELSE LET stem == IrregularConjugation.s_irregular[k]
                 Try(d) ==
                   IF d[3] # 12613 THEN Loop(k + 1)
                   ELSE LET stem_sound == Slice(stem, 0, Len(stem) - 1)
                                            \o <<compose(d[1], d[2], 32)>>
                        IN  IF StartsWith(surface, stem_sound)
                            THEN <<stem, Slice(surface, Len(stem_sound), Len(surface))>>
                            ELSE Loop(k + 1)
             IN  Try(decompose(stem[Len(stem)]))
  IN  Loop(1)

restore_h_irregular(surface) ==
  LET RECURSIVE Loop(_)
      Loop(k) ==
        IF k > Len(IrregularConjugation.h_irregular) THEN <<>>
        ELSE LET stem == IrregularConjugation.h_irregular[k]
                 stem_base == Slice(stem, 0, Len(stem) - 1)
             IN  IF surface = stem_base \o <<47000>> THEN <<stem, <<50500>>>>
                 ELSE IF StartsWith(surface, stem_base \o <<47084>>)
                 THEN <<stem, <<50612>> \o Slice(surface, Len(stem_base) + 1, Len(surface))>>
                 ELSE Loop(k + 1)
  IN  Loop(1)

restore_reu_irregular(surface) ==
  LET RECURSIVE Loop(_)
      Loop(k) ==
        IF k > Len(IrregularConjugation.reu_irregular) THEN <<>>
        ELSE LET stem == IrregularConjugation.reu_irregular[k]
                 prefix == Slice(stem, 0, Len(stem) - 1)
                 Ending(rest, r) ==
                   (IF r[2] = 12627 THEN <<50612>>
                    ELSE IF r[2] = 12623 THEN <<50500>> ELSE rest)
                   \o (IF Len(rest) > 1 THEN Tail(rest) ELSE <<>>)
                 Rest(rest) ==
                   IF rest = <<>> THEN Loop(k + 1)
                   ELSE IF decompose(rest[1])[1] = 12601
                   THEN <<stem, Ending(rest, decompose(rest[1]))>>
                   ELSE Loop(k + 1)
                 Try(d) ==
                   IF d[3] # 32 THEN Loop(k + 1)
                   ELSE LET mod_prefix == Slice(prefix, 0, Len(prefix) - 1)
                                            \o <<compose(d[1], d[2], 12601)>>
                        IN  IF StartsWith(surface, mod_prefix)
                            THEN Rest(Slice(surface, Len(mod_prefix), Len(surface)))
                            ELSE Loop(k + 1)
             IN  IF stem[Len(stem)] # 47476 \/ prefix = <<>> THEN Loop(k + 1)
                 ELSE Try(decompose(prefix[Len(prefix)]))
  IN  Loop(1)

restore_eu_irregular(surface) ==
  LET RECURSIVE Loop(_)
      Loop(k) ==
        IF k > Len(IrregularConjugation.eu_irregular) THEN <<>>
        ELSE LET stem == IrregularConjugation.eu_irregular[k]
                 stem_prefix == Slice(stem, 0, Len(stem) - 1)
                 One(jung_surf) ==
                   IF jung_surf \in {12627, 12623, 12629, 12625}
                   THEN <<stem, (IF jung_surf = 12627 THEN <<50612>>
                                 ELSE IF jung_surf = 12623 THEN <<50500>>
                                 ELSE <<surface[1]>>)
                                \o (IF Len(surface) > 1 THEN Tail(surface) ELSE <<>>)>>
                   ELSE Loop(k + 1)
                 Many(ending) ==
                   IF ending # <<>>
                      /\ ending[1] \in {12627, 12623, 12629, 12625,
                                        50612, 50500, 50668, 50556}
                   THEN <<stem, ending>>
                   ELSE Loop(k + 1)
             IN  IF stem_prefix = <<>>
                 THEN IF surface = <<>> THEN Loop(k + 1)
                      ELSE IF decompose(stem[1])[1] # decompose(surface[1])[1]
                      THEN Loop(k + 1)
                      ELSE One(decompose(surface[1])[2])
                 ELSE IF StartsWith(surface, stem_prefix)
                 THEN Many(Slice(surface, Len(stem_prefix), Len(surface)))
                 ELSE Loop(k + 1)
  IN  Loop(1)

\* restore_any: the first rule that answers, in the order b, d, s, h, reu, eu
restore_any(surface) ==
  LET Or(v, w) == IF v # <<>> THEN v ELSE w
      After(b) ==
        IF b.exc # "" \/ b.val # <<>> THEN b
        ELSE Returns(Or(restore_d_irregular(surface),
                     Or(restore_s_irregular(surface),
                     Or(restore_h_irregular(surface),
                     Or(restore_reu_irregular(surface),
                        restore_eu_irregular(surface))))))
  IN  After(restore_b_irregular(surface))

(***************************************************************************)
(* Regular conjugation (grammar/conjugation.py)                            *)
(***************************************************************************)
\* restore_verb_stem: [exc, val], val the list of <<stem, ending>>
restore_verb_stem(conjugated) ==
  LET init == Slice(conjugated, 0, Len(conjugated) - 1)
      WithStem(stem_char) ==
        IF Len(conjugated) > 1 THEN init \o <<stem_char>> ELSE <<stem_char>>
      Past(cho, jung) ==
        (IF jung \in {12623, 12631, 12632}
         THEN << <<WithStem(IF jung = 12632 THEN compose(cho, 12631, 32)
                            ELSE compose(cho, jung, 32)), <<50520>>>> >>
         ELSE IF jung \in {12627, 12636, 12637, 12643, 12628, 12624}
         THEN << <<WithStem(IF jung = 12637 THEN compose(cho, 12636, 32)
                            ELSE compose(cho, jung, 32)), <<50632>>>> >>
         ELSE <<>>)
        \o (IF jung \in {12627, 12623} /\ compose(cho, 12641, 32) # -1
            THEN << <<WithStem(compose(cho, 12641, 32)),
                      IF jung = 12627 THEN <<50632>> ELSE <<50520>>>> >>
            ELSE <<>>)
      Present(cho, jung) ==
        IF jung = 12632 THEN << <<WithStem(compose(cho, 12631, 32)), <<50500>>>> >>
        ELSE IF jung = 12637 THEN << <<WithStem(compose(cho, 12636, 32)), <<50612>>>> >>
        ELSE IF jung \in {12627, 12623} /\ compose(cho, 12641, 32) # -1
        THEN << <<WithStem(compose(cho, 12641, 32)),
                  IF jung = 12627 THEN <<50612>> ELSE <<50500>>>> >>
        ELSE <<>>
      OrSelf(results) ==
        Returns(IF results # <<>> THEN results ELSE << <<conjugated, <<>>>> >>)
      Regular(results, d) ==
        IF d[1] = -1 THEN OrSelf(results)
        ELSE IF d[3] = 12614
        THEN OrSelf(results \o (IF compose(d[1], d[2], 32) # -1
                                THEN Past(d[1], d[2]) ELSE <<>>))
        ELSE IF d[3] = 32 THEN OrSelf(results \o Present(d[1], d[2]))
        ELSE OrSelf(results)
      Irregular(irr) ==
        IF irr.exc # "" THEN irr
        ELSE Regular(IF irr.val # <<>> THEN <<irr.val>> ELSE <<>>,
                     decompose(conjugated[Len(conjugated)]))
  IN  IF conjugated = <<>> THEN Returns(<<>>)
      ELSE Irregular(restore_any(conjugated))

(***************************************************************************)
(* Part-of-speech tags and scoring (grammar/scorers.py,                    *)
(* grammar/constraints.py).  A tag is the string of its code points.       *)
(***************************************************************************)
POS ==
  [ NNG |-> <<78, 78, 71>>, VV |-> <<86, 86>>, IC |-> <<73, 67>>,
    MAG |-> <<77, 65, 71>>, MM |-> <<77, 77>>, EP |-> <<69, 80>>,
    EF |-> <<69, 70>>, EC |-> <<69, 67>>, ETM |-> <<69, 84, 77>>,
    SF |-> <<83, 70>>, JKS |-> <<74, 75, 83>>, JKO |-> <<74, 75, 79>> ]

COST_LONG_WORD == -40
COST_MEDIUM_WORD == -30
COST_SHORT_WORD == -5
COST_OOV == 50
PENALTY_SINGLE_VERB_IC == 20
BONUS_NOUN_2PLUS == 5
BONUS_ADVERB_2PLUS == 10
COST_CONJUGATION_BASE == -25

get_length_cost(length) ==
  IF length >= 3 THEN COST_LONG_WORD
  ELSE IF length = 2 THEN COST_MEDIUM_WORD
  ELSE COST_SHORT_WORD

\* TransitionModel.get_transition_cost with the empty transitions table the
\* analyzer runs with; prev_pos is a non-empty tag
get_transition_cost(prev_pos, curr_pos) ==
  IF StartsWith(prev_pos, <<78>>) /\ StartsWith(curr_pos, <<74>>) THEN -20
  ELSE IF StartsWith(prev_pos, <<86>>) /\ StartsWith(curr_pos, <<69>>) THEN -15
  ELSE IF StartsWith(prev_pos, <<69>>) /\ StartsWith(curr_pos, <<69>>) THEN -10
  ELSE IF prev_pos = POS.MAG /\ StartsWith(curr_pos, <<78>>) THEN -15
  ELSE IF prev_pos = POS.MAG /\ StartsWith(curr_pos, <<86>>) THEN -10
  ELSE IF prev_pos = POS.MM /\ StartsWith(curr_pos, <<78>>) THEN -10
  ELSE 10

impossible_transitions ==
  { <<POS.JKS, POS.JKS>>, <<POS.JKO, POS.JKO>>, <<POS.EF, POS.JKS>>,
    <<POS.EF, POS.JKO>>, <<POS.EF, POS.EF>>, <<POS.SF, POS.JKS>> }

is_valid_transition(prev_pos, curr_pos) ==
  <<prev_pos, curr_pos>> \notin impossible_transitions

(***************************************************************************)
(* Python string helpers                                                   *)
(***************************************************************************)
\* "for x in seq: acc = Op(acc, x)"
RECURSIVE FoldSeq(_, _, _)
FoldSeq(Op(_, _), acc, seq) ==
  IF seq = <<>> THEN acc ELSE FoldSeq(Op, Op(acc, Head(seq)), Tail(seq))

\* the code points str.split() and str.strip() treat as whitespace
Whitespace ==
  (9..13) \cup (28..32) \cup {133, 160, 5760} \cup (8192..8202)
          \cup {8232, 8233, 8239, 8287, 12288}

\* s.split(sep) for a one-character separator
Split(s, sep) ==
  LET RECURSIVE Go(_, _, _)
      Go(k, cur, acc) ==
        IF k > Len(s) THEN Append(acc, cur)
        ELSE IF s[k] = sep THEN Go(k + 1, <<>>, Append(acc, cur))
        ELSE Go(k + 1, Append(cur, s[k]), acc)
  IN  Go(1, <<>>, <<>>)

\* sep.join(parts), sep a string
Join(parts, sep) ==
  LET RECURSIVE Go(_)
      Go(k) == IF k > Len(parts) THEN <<>>
               ELSE (IF k > 1 THEN sep ELSE <<>>) \o parts[k] \o Go(k + 1)
  IN  Go(1)

\* s.split(): the maximal runs of non-whitespace
SplitWhitespace(s) ==
  LET RECURSIVE Go(_, _, _)
      Go(k, cur, acc) ==
        IF k > Len(s) THEN IF cur = <<>> THEN acc ELSE Append(acc, cur)
        ELSE IF s[k] \in Whitespace
        THEN Go(k + 1, <<>>, IF cur = <<>> THEN acc ELSE Append(acc, cur))
        ELSE Go(k + 1, Append(cur, s[k]), acc)
  IN  Go(1, <<>>, <<>>)

\* s.strip()
Strip(s) ==
  LET keep == {k \in 1..Len(s) : s[k] \notin Whitespace}
  IN  IF keep = {} THEN <<>> ELSE SubSeq(s, SetMin(keep), SetMax(keep))

\* re.split(r"([.!?。])", text): the pieces between the delimiters and the
\* delimiters themselves
SplitSentences(text) ==
  LET RECURSIVE Go(_, _, _)
      Go(k, cur, acc) ==
        IF k > Len(text) THEN Append(acc, cur)
        ELSE IF text[k] \in {46, 33, 63, 12290}
        THEN Go(k + 1, <<>>, Append(Append(acc, cur), <<text[k]>>))
        ELSE Go(k + 1, Append(cur, text[k]), acc)
  IN  Go(1, <<>>, <<>>)

(***************************************************************************)
(* The lattice decoder (grammar/stemmer.py).  A trie handle is             *)
(* [da, t]: da tells a DoubleArrayTrie from a PythonTrieFallback.  The     *)
(* decoder state is [dp, path, prev_pos, trie, exc]: dp[k] is <<>> for     *)
(* infinity and <<cost>> otherwise, path[k] is <<>> for None and <<morph>> *)
(* otherwise, prev_pos[k] is <<>> for None and the tag otherwise.          *)
(***************************************************************************)
Morph(surface, pos, lemma, sub_morphs) ==
  [surface |-> surface, pos |-> pos, lemma |-> lemma, sub_morphs |-> sub_morphs]

search_all_patterns(trie, text) ==
  IF trie.da THEN DAT_search_all_patterns(trie.t, text)
  ELSE Trie_search_all_patterns(trie.t, text)

\* "if total_cost < dp[j]: dp[j] = ...; path[j] = ...; prev_pos[j] = ..."
Relax(st, j, total_cost, morph, pos) ==
  IF st.dp[j] = <<>> \/ total_cost < st.dp[j][1]
  THEN [st EXCEPT !.dp[j] = <<total_cost>>, !.path[j] = <<morph>>, !.prev_pos[j] = pos]
  ELSE st

\* the body of "for pos, lemma in pattern_list" for a dictionary match
DictCandidate(st, sentence, i, j, pos, lemma) ==
  LET prev == st.prev_pos[i]
      surface == Slice(sentence, i, j)
      word_len == j - i
      base_cost ==
        get_length_cost(word_len)
        + (IF word_len = 1 /\ (StartsWith(pos, <<86>>) \/ pos = POS.IC)
           THEN PENALTY_SINGLE_VERB_IC ELSE 0)
        - (IF StartsWith(pos, <<78>>) /\ word_len >= 2 THEN BONUS_NOUN_2PLUS ELSE 0)
        - (IF pos = POS.MAG /\ word_len >= 2 THEN BONUS_ADVERB_2PLUS ELSE 0)
      context_cost == IF prev # <<>> THEN get_transition_cost(prev, pos) ELSE 0
      Composite(pos_parts, lemma_parts) ==
        Relax(st, j, st.dp[i][1] + base_cost + context_cost,
              Morph(surface, pos, lemma,
                    [k \in 1..Len(pos_parts) |->
                       IF Len(pos_parts) = Len(lemma_parts)
                       THEN Morph(lemma_parts[k], pos_parts[k], lemma_parts[k], <<>>)
                       ELSE Morph(lemma, pos_parts[k], lemma, <<>>)]),
              pos_parts[Len(pos_parts)])
  IN  IF prev # <<>> /\ ~is_valid_transition(prev, pos) THEN st
      ELSE IF InSeq(43, pos) THEN Composite(Split(pos, 43), Split(lemma, 43))
      ELSE Relax(st, j, st.dp[i][1] + base_cost + context_cost,
                 Morph(surface, pos, lemma, <<>>), pos)

\* "patterns = self.trie.search_all_patterns(...)" and the loops over them
DictStep(st, sentence, i) ==
  LET Triple(s, t) ==
        IF t[1] # 0 THEN s
        ELSE FoldSeq(LAMBDA a, p : DictCandidate(a, sentence, i, i + t[2], p[1], p[2]),
                     s, t[3])
      Found(r) ==
        IF ~r.ok THEN [st EXCEPT !.exc = r.exc, !.trie.t = r.t]
        ELSE FoldSeq(Triple, [st EXCEPT !.trie.t = r.t], r.result)
  IN  Found(search_all_patterns(st.trie, Slice(sentence, i, Min2(i + 16, Len(sentence)))))

\* the ending's tag guessed from its spelling
ending_pos_of(ending) ==
  IF ending \in { <<51008>>, <<45716>>, <<51012>>, <<12601>>, <<45912>>, <<12596>> }
  THEN POS.ETM
  ELSE IF ending \in { <<45796>>, <<50836>>, <<51424>>, <<49845, 45768, 45796>>,
                       <<12610, 45768, 45796>>, <<44396, 45208>>, <<44400>> }
  THEN POS.EF
  ELSE IF ending \in { <<44256>>, <<47728>>, <<47732, 49436>>, <<50500>>, <<50612>>,
                       <<44172>>, <<51648>>, <<45768>>, <<45768, 44620>> }
  THEN POS.EC
  ELSE POS.EP

\* one (stem, ending) of restore_verb_stem with a non-empty ending; the
\* variant files the candidate under its restored spelling
ConjCandidate_restored_surface(st, i, j, surface, stem, ending) ==
  LET prev == st.prev_pos[i]
      Usable(p) == StartsWith(p[1], <<86>>)
                   /\ (prev = <<>> \/ is_valid_transition(prev, p[1]))
      Cost(pos) == st.dp[i][1] + COST_CONJUGATION_BASE
                   + (IF prev # <<>> THEN get_transition_cost(prev, pos) ELSE 0)
      Take(s, pos, lemma) ==
        Relax(s, j, Cost(pos),
              Morph(stem \o ending, pos, lemma,
                    << Morph(stem, pos, lemma, <<>>),
                       Morph(ending, ending_pos_of(ending), ending, <<>>) >>),
              ending_pos_of(ending))
      FirstUsable(s, pl) ==
        IF \E k \in 1..Len(pl) : Usable(pl[k])
        THEN LET k == SetMin({m \in 1..Len(pl) : Usable(pl[m])})
             IN  Take(s, pl[k][1], pl[k][2])
        ELSE s
      FirstExact(s, ts) ==
        IF \E k \in 1..Len(ts) : ts[k][1] = 0 /\ ts[k][2] = Len(stem)
        THEN LET k == SetMin({m \in 1..Len(ts) : ts[m][1] = 0 /\ ts[m][2] = Len(stem)})
             IN  FirstUsable(s, ts[k][3])
        ELSE s
      Found(r) ==
        IF ~r.ok THEN [st EXCEPT !.exc = r.exc, !.trie.t = r.t]
        ELSE FirstExact([st EXCEPT !.trie.t = r.t], r.result)
  IN  Found(search_all_patterns(st.trie, stem))

ConjCandidate(st, i, j, surface, stem, ending) ==
  LET prev == st.prev_pos[i]
      Usable(p) == StartsWith(p[1], <<86>>)
                   /\ (prev = <<>> \/ is_valid_transition(prev, p[1]))
      Cost(pos) == st.dp[i][1] + COST_CONJUGATION_BASE
                   + (IF prev # <<>> THEN get_transition_cost(prev, pos) ELSE 0)
      Take(s, pos, lemma) ==
        Relax(s, j, Cost(pos),
              Morph(surface, pos, lemma,
                    << Morph(stem, pos, lemma, <<>>),
                       Morph(ending, ending_pos_of(ending), ending, <<>>) >>),
              ending_pos_of(ending))
      FirstUsable(s, pl) ==
        IF \E k \in 1..Len(pl) : Usable(pl[k])
        THEN LET k == SetMin({m \in 1..Len(pl) : Usable(pl[m])})
             IN  Take(s, pl[k][1], pl[k][2])
        ELSE s
      FirstExact(s, ts) ==
        IF \E k \in 1..Len(ts) : ts[k][1] = 0 /\ ts[k][2] = Len(stem)
        THEN LET k == SetMin({m \in 1..Len(ts) : ts[m][1] = 0 /\ ts[m][2] = Len(stem)})
             IN  FirstUsable(s, ts[k][3])
        ELSE s
      Found(r) ==
        IF ~r.ok THEN [st EXCEPT !.exc = r.exc, !.trie.t = r.t]
        ELSE FirstExact([st EXCEPT !.trie.t = r.t], r.result)
  IN  Found(search_all_patterns(st.trie, stem))

\* "for stem, ending in results": results is the outcome c of
\* restore_verb_stem, k the position reached in its list
RECURSIVE ConjResults(_, _, _, _, _, _)
ConjResults(st, sentence, i, j, c, k) ==
  IF c.exc # "" THEN [st EXCEPT !.exc = c.exc]
  ELSE IF st.exc # "" \/ k > Len(c.val) THEN st
  ELSE ConjResults(IF c.val[k][2] = <<>> THEN st
                   ELSE ConjCandidate(st, i, j, Slice(sentence, i, j),
                                      c.val[k][1], c.val[k][2]),
                   sentence, i, j, c, k + 1)

\* "for j in range(i + 1, min(i + 8, n + 1))" from j on: the conjugation
\* candidates
RECURSIVE ConjStep(_, _, _, _)
ConjStep(st, sentence, i, j) ==
  IF st.exc # "" \/ j >= Min2(i + 8, Len(sentence) + 1) THEN st
  ELSE ConjStep(ConjResults(st, sentence, i, j,
                            restore_verb_stem(Slice(sentence, i, j)), 1),
                sentence, i, j + 1)

\* "for j in range(i + 1, min(i + 16, n + 1))": the out-of-vocabulary spans
OOVStep(st, sentence, i) ==
  LET At(s, j) ==
        IF s.dp[j] = <<>>
        THEN Relax(s, j, s.dp[i][1] + COST_OOV,
                   Morph(Slice(sentence, i, j), POS.NNG, Slice(sentence, i, j), <<>>),
                   POS.NNG)
        ELSE s
  IN  IF st.exc # "" THEN st
      ELSE FoldSeq(At, st, [k \in 1..(Min2(i + 16, Len(sentence) + 1) - i - 1) |-> i + k])

\* Stemmer._backtrack
backtrack(path, end) ==
  LET RECURSIVE Walk(_, _)
      Walk(current, result) ==
        IF current > 0 /\ path[current] # <<>>
        THEN LET morph == path[current][1]
             IN  Walk(current - Len(morph.surface),
                      (IF morph.sub_morphs # <<>> THEN morph.sub_morphs ELSE <<morph>>)
                      \o result)
        ELSE result
  IN  Walk(end, <<>>)

\* "for i in range(n)" from i on: dictionary, conjugation and OOV candidates
\* of every reachable position
RECURSIVE Lattice(_, _, _)
Lattice(st, sentence, i) ==
  IF st.exc # "" \/ i >= Len(sentence) THEN st
  ELSE IF st.dp[i] = <<>> THEN Lattice(st, sentence, i + 1)
  ELSE Lattice(OOVStep(ConjStep(DictStep(st, sentence, i), sentence, i, i + 1),
                       sentence, i),
               sentence, i + 1)

\* Stemmer._analyze_sentence (use_rust off): the final decoder state
analyze_sentence(trie, sentence) ==
  Lattice([dp |-> [k \in 0..Len(sentence) |-> IF k = 0 THEN <<0>> ELSE <<>>],
           path |-> [k \in 0..Len(sentence) |-> <<>>],
           prev_pos |-> [k \in 0..Len(sentence) |-> <<>>],
           trie |-> trie, exc |-> ""],
          sentence, 0)

\* "for sent in sentences": acc is [exc, trie, results, decoded]; results
\* holds one morpheme list per sentence, decoded the <<path, n>> it was read
\* from
RECURSIVE Sentences(_, _)
Sentences(acc, sents) ==
  LET sent == Strip(Head(sents))
      Add(s) ==
        IF s.exc # "" THEN [acc EXCEPT !.exc = s.exc, !.trie = s.trie]
        ELSE [acc EXCEPT !.trie = s.trie,
                         !.results = Append(@, backtrack(s.path, Len(sent))),
                         !.decoded = Append(@, <<s.path, Len(sent)>>)]
  IN  IF acc.exc # "" \/ sents = <<>> THEN acc
      ELSE IF sent = <<>> THEN Sentences(acc, Tail(sents))
      ELSE Sentences(Add(analyze_sentence(acc.trie, sent)), Tail(sents))

\* Stemmer.analyze
Stemmer_analyze(trie, text) ==
  Sentences([exc |-> "", trie |-> trie, results |-> <<>>, decoded |-> <<>>],
            SplitSentences(text))

\* "for eojeol in text.split()": acc is [exc, trie, morphemes, decoded]
RECURSIVE Eojeols(_, _)
Eojeols(acc, eojeols) ==
  LET Extend(r) ==
        IF r.exc # "" THEN [acc EXCEPT !.exc = r.exc, !.trie = r.trie]
        ELSE [acc EXCEPT !.trie = r.trie,
                         !.morphemes = FoldSeq(LAMBDA a, l : a \o l, @, r.results),
                         !.decoded = @ \o r.decoded]
  IN  IF acc.exc # "" \/ eojeols = <<>> THEN acc
      ELSE Eojeols(Extend(Stemmer_analyze(acc.trie, Head(eojeols))), Tail(eojeols))

\* MorphAnalyzer.analyze without the neural wrapper
MorphAnalyzer_analyze(trie, text) ==
  Eojeols([exc |-> "", trie |-> trie, morphemes |-> <<>>, decoded |-> <<>>],
          SplitWhitespace(text))

\* trie.insert on either backend: [ok, trie]; ok = FALSE is the RuntimeError
trie_insert(trie, word, pos, lemma) ==
  LET Da(r) == [ok |-> r.ok, trie |-> [trie EXCEPT !.t = r.t]]
  IN  IF trie.da THEN Da(DAT_insert(trie.t, word, pos, lemma))
      ELSE [ok |-> TRUE, trie |-> [trie EXCEPT !.t = Trie_insert(trie.t, word, pos, lemma)]]

\* build_comprehensive_trie without cache files: create_trie, the inserts of
\* the word lists, then "try: trie.build() except RuntimeError: pass"
build_comprehensive_trie(use_double_array, words) ==
  LET Build(trie) ==
        IF trie.da THEN [trie EXCEPT !.t = DAT_build(trie.t).t]
        ELSE [trie EXCEPT !.t = Trie_build_aho_corasick(trie.t)]
  IN  Build(FoldSeq(LAMBDA trie, w : trie_insert(trie, w[1], w[2], w[3]).trie,
                    [da |-> use_double_array,
                     t  |-> IF use_double_array THEN DoubleArrayTrie_init ELSE Trie_init],
                    words))

\* MorphAnalyzer.train_eojeol: the outcome is [exc, trie, accepted]; accepted
\* lists the entries the trie took before the call ended
train_eojeol(trie, surface, morphs) ==
  LET tuple_morphs == [k \in 1..Len(morphs) |-> <<morphs[k].surface, morphs[k].pos>>]
      Took(acc, e, r) ==
        IF r.ok THEN [acc EXCEPT !.trie = r.trie, !.accepted = Append(@, e)]
        ELSE [acc EXCEPT !.exc = "RuntimeError", !.trie = r.trie]
      Insert(acc, e) ==
        IF acc.exc # "" THEN acc
        ELSE Took(acc, e, trie_insert(acc.trie, e[1], e[2], e[3]))
      Compound(acc) ==
        IF surface # Join([k \in 1..Len(morphs) |-> tuple_morphs[k][1]], <<>>)
        THEN Insert(acc, <<surface,
                           Join([k \in 1..Len(morphs) |-> tuple_morphs[k][2]], <<43>>),
                           Join([k \in 1..Len(morphs) |-> tuple_morphs[k][1]], <<43>>)>>)
        ELSE acc
  IN  Compound(FoldSeq(LAMBDA acc, m : Insert(acc, <<m[1], m[2], m[1]>>),
                       [exc |-> "", trie |-> trie, accepted |-> <<>>], tuple_morphs))

(***************************************************************************)
(* The analyzer as a state machine: MorphAnalyzer is constructed over a    *)
(* double-array or a plain dictionary, then analyze and train_eojeol are   *)
(* called in any order.                                                    *)
(***************************************************************************)
MaxCalls == 2

\* entries of the default vocabulary (grammar/dictionary.py), in the order
\* build_comprehensive_trie inserts them: 가/VV/가다, 다/EF, 가/JKS, ./SF
Vocabulary ==
  << << <<44032>>, POS.VV, <<44032, 45796>> >>,
     << <<45796>>, POS.EF, <<45796>> >>,
     << <<44032>>, POS.JKS, <<44032>> >>,
     << <<46>>, POS.SF, <<46>> >> >>

\* the word lists the trie is built from: none (load_defaults off and no
\* cache file) or the vocabulary
Dictionaries == { <<>>, Vocabulary }

\* "", " ", "a", "a와", "가", "갔", "갔다", "갔다.", "가 a", " 갔  가.", "다가",
\* "갔 a와", ".", "가가"
AnalyzerTexts ==
  { <<>>, <<32>>, <<97>>, <<97, 50752>>, <<44032>>, <<44052>>, <<44052, 45796>>,
    <<44052, 45796, 46>>, <<44032, 32, 97>>, <<32, 44052, 32, 32, 44032, 46>>,
    <<45796, 44032>>, <<44052, 32, 97, 50752>>, <<46>>, <<44032, 44032>> }

\* train_eojeol arguments: ("갔", [가/VV/가다, 았/EP]), ("갔다", [가/VV/가,
\* 았/EP, 다/EF]), ("a", [a/NNG]), ("", [])
TrainInputs ==
  { << <<44052>>, << Morph(<<44032>>, POS.VV, <<44032, 45796>>, <<>>),
                     Morph(<<50520>>, POS.EP, <<50520>>, <<>>) >> >>,
    << <<44052, 45796>>, << Morph(<<44032>>, POS.VV, <<44032>>, <<>>),
                            Morph(<<50520>>, POS.EP, <<50520>>, <<>>),
                            Morph(<<45796>>, POS.EF, <<45796>>, <<>>) >> >>,
    << <<97>>, << Morph(<<97>>, POS.NNG, <<97>>, <<>>) >> >>,
    << <<>>, <<>> >> }

\* self.trie of the analyzer
TheTrie == [da |-> analyzer.use_double_array,
            t  |-> IF analyzer.use_double_array THEN dat ELSE pyt]

\* MorphAnalyzer.__init__
InitAnalyzer ==
  \E use_double_array \in BOOLEAN, words \in Dictionaries :
    \E trie \in {build_comprehensive_trie(use_double_array, words)} :
        /\ analyzer = [use_double_array |-> use_double_array, decoded |-> <<>>]
        /\ pool = <<>>
        /\ dat = IF use_double_array THEN trie.t ELSE DoubleArrayTrie_init
        /\ pyt = IF use_double_array THEN Trie_init ELSE trie.t
        /\ inserted = [k \in 1..Len(words) |-> Effective(words[k])]
        /\ steps = 0
        /\ last = NoCall

Analyze ==
  \E text \in AnalyzerTexts :
    \E r \in {MorphAnalyzer_analyze(TheTrie, text)} :
        /\ steps < MaxCalls
        /\ dat' = IF analyzer.use_double_array THEN r.trie.t ELSE dat
        /\ pyt' = IF analyzer.use_double_array THEN pyt ELSE r.trie.t
        /\ analyzer' = [analyzer EXCEPT !.decoded = r.decoded]
        /\ steps' = steps + 1
        /\ last' = [op |-> "analyze", arg |-> text, ok |-> r.exc = "", exc |-> r.exc,
                    result |-> IF r.exc = "" THEN r.morphemes ELSE <<>>,
                    cached |-> FALSE]
        /\ UNCHANGED <<inserted, pool>>

TrainEojeol ==
  \E input \in TrainInputs :
    \E r \in {train_eojeol(TheTrie, input[1], input[2])} :
        /\ steps < MaxCalls
        /\ dat' = IF analyzer.use_double_array THEN r.trie.t ELSE dat
        /\ pyt' = IF analyzer.use_double_array THEN pyt ELSE r.trie.t
        /\ inserted' = inserted \o r.accepted
        /\ steps' = steps + 1
        /\ last' = [op |-> "train_eojeol", arg |-> input, ok |-> r.exc = "",
                    exc |-> r.exc, result |-> r.accepted, cached |-> FALSE]
        /\ UNCHANGED <<analyzer, pool>>

NextAnalyzer == Analyze \/ TrainEojeol
SpecAnalyzer == InitAnalyzer /\ [][NextAnalyzer]_vars

(***************************************************************************)
(* Properties of the analyzer                                              *)
(***************************************************************************)
NoWhitespace(s) == SelectSeq(s, LAMBDA c : c \notin Whitespace)
Surfaces(morphs) == FoldSeq(LAMBDA a, m : a \o m.surface, <<>>, morphs)
Expanded(morphs) ==
  FoldSeq(LAMBDA a, m : a \o (IF m.sub_morphs # <<>> THEN m.sub_morphs ELSE <<m>>),
          <<>>, morphs)

\* the morphemes on a decoded path, composites taken whole
RECURSIVE PathMorphs(_, _)
PathMorphs(path, current) ==
  IF current \in DOMAIN path /\ current > 0 /\ path[current] # <<>>
  THEN Append(PathMorphs(path, current - Len(path[current][1].surface)), path[current][1])
  ELSE <<>>
Whole == FoldSeq(LAMBDA a, d : a \o PathMorphs(d[1], d[2]), <<>>, analyzer.decoded)

C5_AnalyzeNeverRaises ==
  last.op = "analyze"
    => /\ last.ok
       /\ NoWhitespace(last.arg) # <<>> => last.result # <<>>

\* the entry (word, pos, lemma) as the analyzer's trie holds it
TrieContains(word, pos, lemma) ==
  IF ~analyzer.use_double_array THEN InSeq(<<pos, lemma>>, NodePatterns(pyt, word))
  ELSE IF dat.built THEN InSeq(<<pos, lemma>>, DAT_get_patterns(dat, word).result)
  ELSE InSeq(<<word, pos, lemma>>, dat.build_data)

\* C6: after train_eojeol(surface, morphemes) returns, the trie contains
\* (m.surface, m.pos, m.lemma) for every morpheme m given and, when the
\* morphemes' surfaces do not spell surface, the entry (surface, '+'-joined
\* tags, '+'-joined lemmas)
C6_TrainEojeolInserts ==
  (last.op = "train_eojeol" /\ last.ok)
    => LET surface == last.arg[1]
           morphs == last.arg[2]
           Field(f) == [k \in 1..Len(morphs) |-> morphs[k][f]]
       IN  /\ \A k \in 1..Len(morphs) :
                TrieContains(morphs[k].surface, morphs[k].pos, morphs[k].lemma)
           /\ surface # Join(Field("surface"), <<>>)
                => TrieContains(surface, Join(Field("pos"), <<43>>),
                                Join(Field("lemma"), <<43>>))

(***************************************************************************)
(* The pronunciation engine (pronunciation/engine.py and rules/).  A       *)
(* phoneme is [code, cho, jung, jong, is_hangul, original_jong]; a rule    *)
(* takes and returns [exc, phonemes].                                      *)
(***************************************************************************)
\* the compatibility letters the rules name: ㄱ ㄲ ㄳ ㄴ ㄵ ㄶ ㄷ ㄸ ㄹ ㄺ ㄻ ㄼ ㄽ ㄾ
\* ㄿ ㅀ ㅁ ㅂ ㅃ ㅄ ㅅ ㅆ ㅇ ㅈ ㅉ ㅊ ㅋ ㅌ ㅍ ㅎ and ㅏ ㅑ ㅕ ㅛ ㅠ ㅣ
Jamo ==
  [ g |-> 12593, gg |-> 12594, gs |-> 12595, n |-> 12596, nj |-> 12597,
    nh |-> 12598, d |-> 12599, dd |-> 12600, r |-> 12601, rg |-> 12602,
    rm |-> 12603, rb |-> 12604, rs |-> 12605, rt |-> 12606, rp |-> 12607,
    rh |-> 12608, m |-> 12609, b |-> 12610, bb |-> 12611, bs |-> 12612,
    s |-> 12613, ss |-> 12614, ng |-> 12615, j |-> 12616, jj |-> 12617,
    ch |-> 12618, k |-> 12619, t |-> 12620, p |-> 12621, h |-> 12622,
    a |-> 12623, ya |-> 12625, yeo |-> 12629, yo |-> 12635, yu |-> 12640,
    i |-> 12643 ]

\* "if not x" on a Jamo: '' or None
Falsy(x) == x \in {0, -1}

is_hangul(code) ==
  \/ (HANGUL_BASE <= code /\ code <= HANGUL_END)
  \/ (4352 <= code /\ code <= 4607)
  \/ (43360 <= code /\ code <= 43391)
  \/ (55216 <= code /\ code <= 55295)
  \/ (12592 <= code /\ code <= 12687)

Phoneme(code, cho, jung, jong, hangul, original_jong) ==
  [code |-> code, cho |-> cho, jung |-> jung, jong |-> jong,
   is_hangul |-> hangul, original_jong |-> original_jong]

\* Phoneme.compose: a code point, -1 for None
Phoneme_compose(p) == IF ~p.is_hangul THEN p.code ELSE compose(p.cho, p.jung, p.jong)

\* PronunciationEngine._text_to_phonemes
text_to_phonemes(text) ==
  [k \in 1..Len(text) |->
     IF is_hangul(text[k])
     THEN Phoneme(text[k], decompose(text[k])[1], decompose(text[k])[2],
                  decompose(text[k])[3], TRUE, decompose(text[k])[3])
     ELSE Phoneme(text[k], 0, 0, 0, FALSE, 0)]

\* "for i, p in enumerate(phonemes)": At(phonemes, i) is the loop body, i
\* counted from 1
Enumerate(At(_, _), st) ==
  FoldSeq(LAMBDA s, i : IF s.exc # "" THEN s ELSE At(s, i), st,
          [k \in 1..Len(st.phonemes) |-> k])

\* AspirationRule._merge_h: -1 for None
merge_h(jong) ==
  IF jong \in {Jamo.g, Jamo.gg, Jamo.k} THEN Jamo.k
  ELSE IF jong \in {Jamo.d, Jamo.s, Jamo.ss, Jamo.j, Jamo.ch, Jamo.t} THEN Jamo.t
  ELSE IF jong \in {Jamo.b, Jamo.p} THEN Jamo.p
  ELSE IF jong = Jamo.nj THEN Jamo.ch
  ELSE -1

\* AspirationRule._remove_h_trigger
remove_h_trigger(jong) ==
  IF jong = Jamo.rg THEN Jamo.r
  ELSE IF jong = Jamo.rb THEN Jamo.r
  ELSE IF jong = Jamo.nj THEN Jamo.n
  ELSE IF jong = Jamo.gs THEN Jamo.n
  ELSE 0

\* AspirationRule.apply
AspirationRule_apply(st) ==
  LET Aspirated(cho) ==
        IF cho = Jamo.g THEN Jamo.k ELSE IF cho = Jamo.d THEN Jamo.t
        ELSE IF cho = Jamo.b THEN Jamo.p ELSE IF cho = Jamo.j THEN Jamo.ch
        ELSE Jamo.ss
      Case2(ps, i) ==
        IF ps[i].jong \in {Jamo.h, Jamo.nh, Jamo.rh}
           /\ ps[i + 1].cho \in {Jamo.g, Jamo.d, Jamo.b, Jamo.j, Jamo.s}
        THEN [ps EXCEPT ![i + 1].cho = Aspirated(@),
                        ![i].jong = IF @ = Jamo.h THEN 0
                                    ELSE IF @ = Jamo.nh THEN Jamo.n ELSE Jamo.r]
        ELSE ps
      Case1(ps, i) ==
        IF ps[i + 1].cho = Jamo.h /\ merge_h(ps[i].jong) # -1
        THEN [ps EXCEPT ![i + 1].cho = merge_h(ps[i].jong),
                        ![i].jong = remove_h_trigger(@)]
        ELSE ps
      At(s, i) ==
        IF \/ ~s.phonemes[i].is_hangul \/ Falsy(s.phonemes[i].jong)
           \/ i + 1 > Len(s.phonemes)
        THEN s
        ELSE IF ~s.phonemes[i + 1].is_hangul THEN s
        ELSE [s EXCEPT !.phonemes = Case2(Case1(@, i), i)]
  IN  Enumerate(At, st)

\* PalatalizationRule.apply
PalatalizationRule_apply(st) ==
  LET Palatal(ps, i) ==
        IF ps[i].jong = Jamo.d THEN [ps EXCEPT ![i + 1].cho = Jamo.j, ![i].jong = 0]
        ELSE IF ps[i].jong = Jamo.t THEN [ps EXCEPT ![i + 1].cho = Jamo.ch, ![i].jong = 0]
        ELSE IF ps[i].jong = Jamo.rt
        THEN [ps EXCEPT ![i + 1].cho = Jamo.ch, ![i].jong = Jamo.r]
        ELSE ps
      At(s, i) ==
        IF \/ ~s.phonemes[i].is_hangul \/ Falsy(s.phonemes[i].jong)
           \/ i + 1 > Len(s.phonemes)
        THEN s
        ELSE IF /\ s.phonemes[i + 1].cho = Jamo.ng
                /\ s.phonemes[i + 1].jung \in {Jamo.i, Jamo.ya, Jamo.yeo, Jamo.yo, Jamo.yu}
        THEN [s EXCEPT !.phonemes = Palatal(@, i)]
        ELSE s
  IN  Enumerate(At, st)

\* LiaisonRule._split_cluster: <<residue, moved>>
split_cluster_none(jong) == <<jong, 0>>
split_cluster(jong) ==
  IF jong = Jamo.gs THEN <<Jamo.g, Jamo.s>>
  ELSE IF jong = Jamo.nj THEN <<Jamo.n, Jamo.j>>
  ELSE IF jong = Jamo.nh THEN <<Jamo.n, Jamo.h>>
  ELSE IF jong = Jamo.rg THEN <<Jamo.r, Jamo.g>>
  ELSE IF jong = Jamo.rm THEN <<Jamo.r, Jamo.m>>
  ELSE IF jong = Jamo.rb THEN <<Jamo.r, Jamo.b>>
  ELSE IF jong = Jamo.rs THEN <<Jamo.r, Jamo.s>>
  ELSE IF jong = Jamo.rt THEN <<Jamo.r, Jamo.t>>
  ELSE IF jong = Jamo.rp THEN <<Jamo.r, Jamo.p>>
  ELSE IF jong = Jamo.rh THEN <<Jamo.r, Jamo.h>>
  ELSE IF jong = Jamo.bs THEN <<Jamo.b, Jamo.s>>
  ELSE <<jong, 0>>

\* LiaisonRule.apply
LiaisonRule_apply(st) ==
  LET Move(ps, i) ==
        IF ps[i].jong = Jamo.h THEN [ps EXCEPT ![i].jong = 0]
        ELSE IF ps[i].jong = Jamo.nh
        THEN [ps EXCEPT ![i + 1].cho = Jamo.n, ![i].jong = 0]
        ELSE IF ps[i].jong = Jamo.rh
        THEN [ps EXCEPT ![i + 1].cho = Jamo.r, ![i].jong = 0]
        ELSE IF InSeq(ps[i].jong, CHOSUNG)
        THEN [ps EXCEPT ![i + 1].cho = ps[i].jong, ![i].jong = 0]
        ELSE IF split_cluster(ps[i].jong)[2] # 0
        THEN [ps EXCEPT ![i].jong = split_cluster(@)[1],
                        ![i + 1].cho = IF split_cluster(ps[i].jong)[2] = Jamo.s
                                       THEN Jamo.ss
                                       ELSE split_cluster(ps[i].jong)[2]]
        ELSE ps
      At(s, i) ==
        IF \/ ~s.phonemes[i].is_hangul \/ Falsy(s.phonemes[i].jong)
           \/ i + 1 > Len(s.phonemes)
        THEN s
        ELSE IF ~s.phonemes[i + 1].is_hangul \/ s.phonemes[i + 1].cho # Jamo.ng THEN s
        ELSE [s EXCEPT !.phonemes = Move(@, i)]
  IN  Enumerate(At, st)

\* NeutralizationRule.JONG_NEUTRAL.get(jong, jong)
JONG_NEUTRAL(jong) ==
  IF jong \in {Jamo.gg, Jamo.gs, Jamo.k} THEN Jamo.g
  ELSE IF jong \in {Jamo.s, Jamo.ss, Jamo.j, Jamo.ch, Jamo.t, Jamo.h} THEN Jamo.d
  ELSE IF jong \in {Jamo.rb, Jamo.rs, Jamo.rt, Jamo.rh} THEN Jamo.r
  ELSE IF jong \in {Jamo.nj, Jamo.nh} THEN Jamo.n
  ELSE IF jong = Jamo.rm THEN Jamo.m
  ELSE IF jong \in {Jamo.rp, Jamo.bs} THEN Jamo.b
  ELSE jong

\* NeutralizationRule.CLUSTER_SIMPLE.get(jong, jong)
CLUSTER_SIMPLE(jong) ==
  IF jong \in {Jamo.gs, Jamo.rg} THEN Jamo.g
  ELSE IF jong \in {Jamo.nj, Jamo.nh} THEN Jamo.n
  ELSE IF jong = Jamo.rm THEN Jamo.m
  ELSE IF jong \in {Jamo.rb, Jamo.rs, Jamo.rt, Jamo.rh} THEN Jamo.r
  ELSE IF jong \in {Jamo.rp, Jamo.bs} THEN Jamo.b
  ELSE jong

\* NeutralizationRule._simplify
simplify_plain(jong, next_cho) == CLUSTER_SIMPLE(jong)
simplify(jong, next_cho) ==
  IF jong = Jamo.rg /\ next_cho = Jamo.g THEN Jamo.r ELSE CLUSTER_SIMPLE(jong)

\* NeutralizationRule.apply
NeutralizationRule_apply(st) ==
  LET NextCho(ps, i) ==
        IF i + 1 <= Len(ps) /\ ps[i + 1].is_hangul THEN ps[i + 1].cho ELSE 0
      At(s, i) ==
        IF ~s.phonemes[i].is_hangul \/ Falsy(s.phonemes[i].jong) THEN s
        ELSE [s EXCEPT !.phonemes[i].jong =
                         JONG_NEUTRAL(simplify(@, NextCho(s.phonemes, i)))]
  IN  Enumerate(At, st)

\* TensificationRule.apply: TENS_MAP[cho] is -1 where the dict has no key,
\* and then the lookup raises KeyError
TENS_MAP(cho) ==
  IF cho = Jamo.g THEN Jamo.gg ELSE IF cho = Jamo.d THEN Jamo.dd
  ELSE IF cho = Jamo.b THEN Jamo.bb ELSE IF cho = Jamo.s THEN Jamo.ss
  ELSE IF cho = Jamo.j THEN Jamo.jj ELSE -1

TensificationRule_skip(st) == st
TensificationRule_apply(st) ==
  LET Obstruent(s, i) ==
        IF s.phonemes[i].jong \in {Jamo.g, Jamo.d, Jamo.b}
        THEN [s EXCEPT !.phonemes[i + 1].cho = TENS_MAP(@)]
        ELSE s
      Stem(s, i) ==
        IF s.phonemes[i].original_jong
             \in {Jamo.nj, Jamo.nh, Jamo.rm, Jamo.rb, Jamo.rt, Jamo.rh}
        THEN IF TENS_MAP(s.phonemes[i + 1].cho) = -1 THEN [s EXCEPT !.exc = "KeyError"]
             ELSE [s EXCEPT !.phonemes[i + 1].cho = TENS_MAP(@)]
        ELSE s
      Rieulgiyeok(s, i) ==
        IF s.exc = "" /\ s.phonemes[i].original_jong = Jamo.rg
           /\ s.phonemes[i + 1].cho = Jamo.g
        THEN [s EXCEPT !.phonemes[i + 1].cho = Jamo.gg]
        ELSE s
      At(s, i) ==
        IF \/ ~s.phonemes[i].is_hangul \/ Falsy(s.phonemes[i].jong)
           \/ i + 1 > Len(s.phonemes)
        THEN s
        ELSE IF TENS_MAP(s.phonemes[i + 1].cho) = -1 THEN s
        ELSE Rieulgiyeok(Stem(Obstruent(s, i), i), i)
  IN  Enumerate(At, st)

\* AssimilationRule.apply: one "for i in range(len(phonemes) - 1)" pass over
\* [phonemes, changed], then the "while changed and limit > 0" loop
AssimilationPass(phonemes) ==
  LET Liquid(a, i) ==
        IF a.phonemes[i].jong = Jamo.n /\ a.phonemes[i + 1].cho = Jamo.r
        THEN [a EXCEPT !.phonemes[i].jong = Jamo.r, !.changed = TRUE]
        ELSE IF a.phonemes[i].jong = Jamo.r /\ a.phonemes[i + 1].cho = Jamo.n
        THEN [a EXCEPT !.phonemes[i + 1].cho = Jamo.r, !.changed = TRUE]
        ELSE a
      NasalLiquid(a, i) ==
        IF a.phonemes[i].jong \in {Jamo.g, Jamo.d, Jamo.b, Jamo.m, Jamo.ng}
           /\ a.phonemes[i + 1].cho = Jamo.r
        THEN [a EXCEPT !.phonemes[i + 1].cho = Jamo.n, !.changed = TRUE]
        ELSE a
      NasalObstruent(a, i) ==
        IF a.phonemes[i].jong \in {Jamo.g, Jamo.d, Jamo.b}
           /\ a.phonemes[i + 1].cho \in {Jamo.n, Jamo.m}
        THEN [a EXCEPT !.phonemes[i].jong = IF @ = Jamo.g THEN Jamo.ng
                                            ELSE IF @ = Jamo.d THEN Jamo.n ELSE Jamo.m,
                       !.changed = TRUE]
        ELSE a
      At(a, i) ==
        IF \/ ~a.phonemes[i].is_hangul \/ ~a.phonemes[i + 1].is_hangul
           \/ Falsy(a.phonemes[i].jong)
        THEN a
        ELSE NasalObstruent(NasalLiquid(Liquid(a, i), i), i)
  IN  FoldSeq(At, [phonemes |-> phonemes, changed |-> FALSE],
              [k \in 1..(Len(phonemes) - 1) |-> k])

assimilation_limit == 3

RECURSIVE AssimilationLoop(_, _)
AssimilationLoop_none(a, limit) == a.phonemes
AssimilationLoop(a, limit) ==
  IF a.changed /\ limit > 0 THEN AssimilationLoop(AssimilationPass(a.phonemes), limit - 1)
  ELSE a.phonemes

AssimilationRule_apply(st) ==
  [st EXCEPT !.phonemes = AssimilationLoop([phonemes |-> @, changed |-> TRUE],
                                           assimilation_limit)]

\* PronunciationEngine.pipeline, in order
Pipeline(st) ==
  LET Then(Rule(_), s) == IF s.exc # "" THEN s ELSE Rule(s)
  IN  Then(AssimilationRule_apply,
        Then(TensificationRule_apply,
          Then(NeutralizationRule_apply,
            Then(LiaisonRule_apply,
              Then(PalatalizationRule_apply, AspirationRule_apply(st))))))

\* PronunciationEngine.pronounce: [exc, val]; "".join raises TypeError on a
\* phoneme that composes to None
pronounce(text) ==
  LET Joined(st) ==
        IF st.exc # "" THEN Raises(st.exc)
        ELSE IF \E k \in 1..Len(st.phonemes) : Phoneme_compose(st.phonemes[k]) = -1
        THEN Raises("TypeError")
        ELSE Returns([k \in 1..Len(st.phonemes) |-> Phoneme_compose(st.phonemes[k])])
  IN  IF text = <<>> THEN Returns(<<>>)
      ELSE Joined(Pipeline([exc |-> "", phonemes |-> text_to_phonemes(text)]))

(***************************************************************************)
(* Romanization (romanization/romanization.py).  A table maps a letter's   *)
(* code point ('' is 0) to the code points of its Latin spelling.          *)
(***************************************************************************)
\* ㄱ:g ㄲ:kk ㄴ:n ㄷ:d ㄸ:tt ㄹ:r ㅁ:m ㅂ:b ㅃ:pp ㅅ:s ㅆ:ss ㅇ:'' ㅈ:j ㅉ:jj ㅊ:ch ㅋ:k
\* ㅌ:t ㅍ:p ㅎ:h
CHO_MAP ==
  12593 :> <<103>> @@ 12594 :> <<107, 107>> @@ 12596 :> <<110>> @@
    12599 :> <<100>> @@ 12600 :> <<116, 116>> @@ 12601 :> <<114>> @@
    12609 :> <<109>> @@ 12610 :> <<98>> @@ 12611 :> <<112, 112>> @@
    12613 :> <<115>> @@ 12614 :> <<115, 115>> @@ 12615 :> <<>> @@
    12616 :> <<106>> @@ 12617 :> <<106, 106>> @@ 12618 :> <<99, 104>> @@
    12619 :> <<107>> @@ 12620 :> <<116>> @@ 12621 :> <<112>> @@
    12622 :> <<104>>

\* ㅏ:a ㅐ:ae ㅑ:ya ㅒ:yae ㅓ:eo ㅔ:e ㅕ:yeo ㅖ:ye ㅗ:o ㅘ:wa ㅙ:wae ㅚ:oe ㅛ:yo ㅜ:u ㅝ:wo
\* ㅞ:we ㅟ:wi ㅠ:yu ㅡ:eu ㅢ:ui ㅣ:i
JUNG_MAP ==
  12623 :> <<97>> @@ 12624 :> <<97, 101>> @@ 12625 :> <<121, 97>> @@
    12626 :> <<121, 97, 101>> @@ 12627 :> <<101, 111>> @@ 12628 :> <<101>> @@
    12629 :> <<121, 101, 111>> @@ 12630 :> <<121, 101>> @@
    12631 :> <<111>> @@ 12632 :> <<119, 97>> @@ 12633 :> <<119, 97, 101>> @@
    12634 :> <<111, 101>> @@ 12635 :> <<121, 111>> @@ 12636 :> <<117>> @@
    12637 :> <<119, 111>> @@ 12638 :> <<119, 101>> @@
    12639 :> <<119, 105>> @@ 12640 :> <<121, 117>> @@
    12641 :> <<101, 117>> @@ 12642 :> <<117, 105>> @@ 12643 :> <<105>>

\* '':'' ㄱ:k ㄲ:k ㄳ:k ㄴ:n ㄵ:n ㄶ:n ㄷ:t ㄹ:l ㄺ:k ㄻ:m ㄼ:l ㄽ:l ㄾ:l ㄿ:p ㅀ:l ㅁ:m ㅂ:p
\* ㅄ:p ㅅ:t ㅆ:t ㅇ:ng ㅈ:t ㅊ:t ㅋ:k ㅌ:t ㅍ:p ㅎ:t
JONG_MAP ==
  0 :> <<>> @@ 12593 :> <<107>> @@ 12594 :> <<107>> @@ 12595 :> <<107>> @@
    12596 :> <<110>> @@ 12597 :> <<110>> @@ 12598 :> <<110>> @@
    12599 :> <<116>> @@ 12601 :> <<108>> @@ 12602 :> <<107>> @@
    12603 :> <<109>> @@ 12604 :> <<108>> @@ 12605 :> <<108>> @@
    12606 :> <<108>> @@ 12607 :> <<112>> @@ 12608 :> <<108>> @@
    12609 :> <<109>> @@ 12610 :> <<112>> @@ 12612 :> <<112>> @@
    12613 :> <<116>> @@ 12614 :> <<116>> @@ 12615 :> <<110, 103>> @@
    12616 :> <<116>> @@ 12618 :> <<116>> @@ 12619 :> <<107>> @@
    12620 :> <<116>> @@ 12621 :> <<112>> @@ 12622 :> <<116>>

\* '':'' ㄱ:g ㄲ:kk ㄳ:gs ㄴ:n ㄵ:nj ㄶ:nh ㄷ:d ㄹ:l ㄺ:lg ㄻ:lm ㄼ:lb ㄽ:ls ㄾ:lt ㄿ:lp
\* ㅀ:lh ㅁ:m ㅂ:b ㅄ:bs ㅅ:s ㅆ:ss ㅇ:ng ㅈ:j ㅊ:ch ㅋ:k ㅌ:t ㅍ:p ㅎ:h
JONG_MAP_LITERAL ==
  0 :> <<>> @@ 12593 :> <<103>> @@ 12594 :> <<107, 107>> @@
    12595 :> <<103, 115>> @@ 12596 :> <<110>> @@ 12597 :> <<110, 106>> @@
    12598 :> <<110, 104>> @@ 12599 :> <<100>> @@ 12601 :> <<108>> @@
    12602 :> <<108, 103>> @@ 12603 :> <<108, 109>> @@ 12604 :> <<108, 98>> @@
    12605 :> <<108, 115>> @@ 12606 :> <<108, 116>> @@
    12607 :> <<108, 112>> @@ 12608 :> <<108, 104>> @@ 12609 :> <<109>> @@
    12610 :> <<98>> @@ 12612 :> <<98, 115>> @@ 12613 :> <<115>> @@
    12614 :> <<115, 115>> @@ 12615 :> <<110, 103>> @@ 12616 :> <<106>> @@
    12618 :> <<99, 104>> @@ 12619 :> <<107>> @@ 12620 :> <<116>> @@
    12621 :> <<112>> @@ 12622 :> <<104>>

\* table.get(key, "")
Get(table, key) == IF key \in DOMAIN table THEN table[key] ELSE <<>>

\* the loop body of romanize_pronunciation and romanize_standard: the Latin
\* letters one character contributes under the given table of finals
romanize_char(char, jong_map) ==
  IF is_hangul(char)
  THEN Get(CHO_MAP, decompose(char)[1]) \o Get(JUNG_MAP, decompose(char)[2])
         \o Get(jong_map, decompose(char)[3])
  ELSE <<char>>

\* "for char in text: res.append(...)" and "".join(res), from position k on
RECURSIVE romanize_chars(_, _, _)
romanize_chars(text, k, jong_map) ==
  IF k > Len(text) THEN <<>>
  ELSE romanize_char(text[k], jong_map) \o romanize_chars(text, k + 1, jong_map)

\* romanize_pronunciation: [exc, val]; an exception of pronounce propagates
romanize_pronunciation(text) ==
  LET Table(p) == IF p.exc # "" THEN p ELSE Returns(romanize_chars(p.val, 1, JONG_MAP))
  IN  Table(pronounce(text))

\* romanize_standard
romanize_standard_phonetic(text) == romanize_pronunciation(text)
romanize_standard(text) == Returns(romanize_chars(text, 1, JONG_MAP_LITERAL))

\* romanize
romanize(text) == romanize_pronunciation(text)
(***************************************************************************)
(* The engine and the romanizer as a state machine: they keep nothing      *)
(* between calls, so a behaviour is one text of the bound and one call,    *)
(* pronounce, romanize or romanize_standard, on it.                        *)
(***************************************************************************)
MaxPronLen == 2

\* the syllables 아 악 ... 앟 (every final), 가 다 바 사 자 하 나 라 마 이 히, the
\* letter a and the lone consonant ㄱ
PronAlphabet ==
  {compose(Jamo.ng, Jamo.a, JONGSUNG[k]) : k \in 1..Len(JONGSUNG)}
    \cup {compose(c, Jamo.a, 0) : c \in {Jamo.g, Jamo.d, Jamo.b, Jamo.s, Jamo.j,
                                         Jamo.h, Jamo.n, Jamo.r, Jamo.m}}
    \cup {compose(Jamo.ng, Jamo.i, 0), compose(Jamo.h, Jamo.i, 0), 97, Jamo.g}
PronTexts == SeqsUpTo(PronAlphabet, MaxPronLen)

\* tests/test_pronunciation.py: <<text, expected pronunciation>>
Fixtures ==
  {  <<<<48165, 51060>>, <<48148, 48708>>>>,                 \* 밥이 -> 바비
     <<<<54644, 46027, 51060>>, <<54644, 46020, 51648>>>>,   \* 해돋이 -> 해도지
     <<<<46021, 47549>>, <<46041, 45785>>>>,                 \* 독립 -> 동닙
     <<<<44050, 51060>>, <<44049, 50472>>>>,                 \* 값이 -> 갑씨
     <<<<51069, 44256>>, <<51068, 44844>>>>,                 \* 읽고 -> 일꼬
     <<<<44057, 51060>>, <<44032, 52824>>>>,                 \* 같이 -> 가치
     <<<<50505, 45796>>, <<50504, 46384>>>>,                 \* 앉다 -> 안따
     <<<<49899, 50612>>, <<49884, 47084>>>>,                 \* 싫어 -> 시러
     <<<<45459, 44256>>, <<45432, 53076>>>>  }               \* 놓고 -> 노코

\* PronunciationEngine.__init__, and the text about to be pronounced
InitPron ==
  /\ dat = DoubleArrayTrie_init
  /\ pyt = Trie_init
  /\ inserted = <<>>
  /\ steps = 0
  /\ analyzer = NoAnalyzer
  /\ pool = <<>>
  /\ \E text \in PronTexts \cup {f[1] : f \in Fixtures} :
       last = [NoCall EXCEPT !.arg = text]

Pronounce ==
  /\ last.op = "none"
  /\ \E r \in {pronounce(last.arg)} :
       last' = [op |-> "pronounce", arg |-> last.arg, ok |-> r.exc = "", exc |-> r.exc,
                result |-> r.val, cached |-> FALSE]
  /\ steps' = steps + 1
  /\ UNCHANGED <<dat, pyt, inserted, analyzer, pool>>

Romanize ==
  /\ last.op = "none"
  /\ \E r \in {romanize(last.arg)} :
       last' = [op |-> "romanize", arg |-> last.arg, ok |-> r.exc = "", exc |-> r.exc,
                result |-> r.val, cached |-> FALSE]
  /\ steps' = steps + 1
  /\ UNCHANGED <<dat, pyt, inserted, analyzer, pool>>

RomanizeStandard ==
  /\ last.op = "none"
  /\ \E r \in {romanize_standard(last.arg)} :
       last' = [op |-> "romanize_standard", arg |-> last.arg, ok |-> r.exc = "",
                exc |-> r.exc, result |-> r.val, cached |-> FALSE]
  /\ steps' = steps + 1
  /\ UNCHANGED <<dat, pyt, inserted, analyzer, pool>>

NextPron == Pronounce \/ Romanize \/ RomanizeStandard
SpecPron == InitPron /\ [][NextPron]_vars

(***************************************************************************)
(* Properties of the pronunciation engine                                  *)
(***************************************************************************)
SevenCodas == {0, Jamo.g, Jamo.n, Jamo.d, Jamo.r, Jamo.m, Jamo.b, Jamo.ng}
IsSyllable(code) == HANGUL_BASE <= code /\ code <= HANGUL_END

\* C10: every Hangul syllable of pronounce(text) has a final that is empty
\* or one of ㄱ ㄴ ㄷ ㄹ ㅁ ㅂ ㅇ
C10_FinalsAreSevenCodas ==
  (last.op = "pronounce" /\ last.ok)
    => \A k \in 1..Len(last.result) :
         IsSyllable(last.result[k]) => decompose(last.result[k])[3] \in SevenCodas

\* C11: pronounce is idempotent: pronouncing the outcome of pronounce again
\* returns it unchanged
C11_PronounceIdempotent ==
  (last.op = "pronounce" /\ last.ok) => pronounce(last.result) = Returns(last.result)

\* C12: on every text, lone Jamo letters included, pronounce returns a string
\* of as many code points as the text, with every non-Hangul code point
\* unchanged at its index
C12_LengthAndNonHangulKept ==
  last.op = "pronounce"
    => /\ last.ok
       /\ Len(last.result) = Len(last.arg)
       /\ \A k \in 1..Len(last.arg) : ~is_hangul(last.arg[k]) => last.result[k] = last.arg[k]

\* C17: pronounce returns the expected pronunciation of each of the nine
\* texts of tests/test_pronunciation.py
C17_FixturesPronounced ==
  \A f \in Fixtures :
    (last.op = "pronounce" /\ last.arg = f[1]) => (last.ok /\ last.result = f[2])

\* 읽고 was pronounced
C17_Witness ==
  last.op = "pronounce" /\ last.ok /\ last.arg = <<51069, 44256>>

\* C20: in pronounce(text) no Hangul syllable with a final is immediately
\* followed by a syllable whose initial is ㅇ
FinalBeforeVowel(text, k) ==
  /\ IsSyllable(text[k]) /\ IsSyllable(text[k + 1])
  /\ decompose(text[k])[3] # 0
  /\ decompose(text[k + 1])[1] = Jamo.ng

C20_NoFinalBeforeVowel ==
  (last.op = "pronounce" /\ last.ok)
    => \A k \in 1..(Len(last.result) - 1) : ~FinalBeforeVowel(last.result, k)

\* a text with a cluster final before a vowel-initial syllable was pronounced
C20_Witness ==
  /\ last.op = "pronounce" /\ last.ok
  /\ \E k \in 1..(Len(last.arg) - 1) :
       FinalBeforeVowel(last.arg, k) /\ split_cluster(decompose(last.arg[k])[3])[2] # 0

\* the Latin letters of one character: of a syllable its initial, its medial
\* and its final under the given table, of a non-Hangul character itself
Latin(char, finals) ==
  IF IsSyllable(char)
  THEN CHO_MAP[decompose(char)[1]] \o JUNG_MAP[decompose(char)[2]]
         \o finals[decompose(char)[3]]
  ELSE <<char>>

RECURSIVE LatinFrom(_, _, _)
LatinFrom(text, k, finals) ==
  IF k > Len(text) THEN <<>> ELSE Latin(text[k], finals) \o LatinFrom(text, k + 1, finals)

\* a text of syllables and non-Hangul characters only
NoLoneJamo(text) == \A k \in 1..Len(text) : IsSyllable(text[k]) \/ ~is_hangul(text[k])

\* C18: romanize(text) is the per-syllable lookup with the phonetic table of
\* finals over pronounce(text); romanize_standard(text) is the lookup with
\* the literal table over the text itself; both copy non-Hangul characters
C18_RomanizeIsLookup ==
  /\ last.op = "romanize"
       => IF pronounce(last.arg).exc # ""
          THEN ~last.ok /\ last.exc = pronounce(last.arg).exc
          ELSE last.ok /\ last.result = LatinFrom(pronounce(last.arg).val, 1, JONG_MAP)
  /\ (last.op = "romanize_standard" /\ NoLoneJamo(last.arg))
       => (last.ok /\ last.result = LatinFrom(last.arg, 1, JONG_MAP_LITERAL))

\* 읽고 was romanized through its pronunciation 일꼬 as ilkko
C18_Witness ==
  /\ last.op = "romanize" /\ last.ok
  /\ last.arg = <<51069, 44256>>
  /\ last.result = <<105, 108, 107, 107, 111>>

(***************************************************************************)
(* hangul.compose and hangul.decompose as a state machine: a behaviour is  *)
(* one triple of letters, the compose call on it and, when that returned   *)
(* a syllable, the decompose call on the syllable.                         *)
(***************************************************************************)
\* every letter of the slot's table, and beside them '' (0), None (-1), the
\* Latin letter a and Hangul letters that belong to another slot
ChoInputs == {CHOSUNG[k] : k \in 1..Len(CHOSUNG)} \cup {0, -1, 97, Jamo.gs, Jamo.a}
JungInputs == {JUNGSUNG[k] : k \in 1..Len(JUNGSUNG)} \cup {0, -1, 97, Jamo.g}
JongInputs == {JONGSUNG[k] : k \in 1..Len(JONGSUNG)} \cup {-1, 97, Jamo.dd, Jamo.bb, Jamo.jj, Jamo.a}

InitHangul ==
  /\ dat = DoubleArrayTrie_init
  /\ pyt = Trie_init
  /\ inserted = <<>>
  /\ steps = 0
  /\ analyzer = NoAnalyzer
  /\ pool = <<>>
  /\ \E cho \in ChoInputs, jung \in JungInputs, jong \in JongInputs :
       last = [NoCall EXCEPT !.arg = <<cho, jung, jong>>]

\* compose(cho, jung, jong)
Compose ==
  /\ last.op = "none"
  /\ last' = [op |-> "compose", arg |-> last.arg, ok |-> TRUE, exc |-> "",
              result |-> compose(last.arg[1], last.arg[2], last.arg[3]), cached |-> FALSE]
  /\ steps' = steps + 1
  /\ UNCHANGED <<dat, pyt, inserted, analyzer, pool>>

\* decompose(ch) of the syllable compose returned
Decompose ==
  /\ last.op = "compose"
  /\ last.result # -1
  /\ last' = [op |-> "decompose", arg |-> last.result, ok |-> TRUE, exc |-> "",
              result |-> decompose(last.result), cached |-> FALSE]
  /\ steps' = steps + 1
  /\ UNCHANGED <<dat, pyt, inserted, analyzer, pool>>

NextHangul == Compose \/ Decompose
SpecHangul == InitHangul /\ [][NextHangul]_vars

(***************************************************************************)
(* Properties of compose and decompose                                     *)
(***************************************************************************)
\* the modern inventory: 19 initials, 21 medials, 28 finals with the empty one
InInventory(cho, jung, jong) ==
  InSeq(cho, CHOSUNG) /\ InSeq(jung, JUNGSUNG) /\ InSeq(jong, JONGSUNG)

\* C19: compose returns None whenever an argument lies outside the modern
\* inventory of its slot, and otherwise the syllable that decompose takes
\* back to the three arguments; compose(decompose(c)) = c for a syllable c
C19_ComposeInvertsDecompose ==
  /\ last.op = "compose"
       => IF InInventory(last.arg[1], last.arg[2], last.arg[3])
          THEN IsSyllable(last.result) /\ decompose(last.result) = last.arg
          ELSE last.result = -1
  /\ last.op = "decompose"
       => compose(last.result[1], last.result[2], last.result[3]) = last.arg

(***************************************************************************)
(* GPUBatchAnalyzer.analyze_batch in rule mode (grammar/gpu.py): a thread  *)
(* pool maps analyzer.analyze over the sentences.  The tasks share the     *)
(* analyzer and its trie; between two calls of trie.search_all_patterns a  *)
(* task works on its own lattice, so a task is the list of keys its        *)
(* analyze searches, and its steps are the statements of the search cache. *)
(***************************************************************************)
\* "for stem, ending in conj_results: if not ending: continue;
\* self.trie.search_all_patterns(stem)": the stems searched, from entry k on
RECURSIVE StemKeys(_, _)
StemKeys(conj_results, k) ==
  IF k > Len(conj_results) THEN <<>>
  ELSE (IF conj_results[k][2] = <<>> THEN <<>> ELSE <<conj_results[k][1]>>)
         \o StemKeys(conj_results, k + 1)

\* "for j in range(i + 1, min(i + 8, n + 1))": acc is [exc, keys], the keys
\* searched so far and the exception that ended the call
RECURSIVE ConjKeys(_, _, _, _)
ConjKeys(acc, sentence, i, j) ==
  LET After(c) == IF c.exc # "" THEN [acc EXCEPT !.exc = c.exc]
                  ELSE [acc EXCEPT !.keys = @ \o StemKeys(c.val, 1)]
  IN  IF acc.exc # "" \/ j >= Min2(i + 8, Len(sentence) + 1) THEN acc
      ELSE ConjKeys(After(restore_verb_stem(Slice(sentence, i, j))), sentence, i, j + 1)

\* "for i in range(n)" of Stemmer._analyze_sentence: every position is
\* reached, because the unknown-word step fills each one
RECURSIVE LatticeKeys(_, _, _)
LatticeKeys(acc, sentence, i) ==
  IF acc.exc # "" \/ i >= Len(sentence) THEN acc
  ELSE LatticeKeys(
         ConjKeys([acc EXCEPT !.keys = Append(@, Slice(sentence, i,
                                                      Min2(i + 16, Len(sentence))))],
                  sentence, i, i + 1),
         sentence, i + 1)

\* "for sent in sentences" of Stemmer.analyze
RECURSIVE SentenceKeys(_, _)
SentenceKeys(acc, sents) ==
  IF acc.exc # "" \/ sents = <<>> THEN acc
  ELSE IF Strip(Head(sents)) = <<>> THEN SentenceKeys(acc, Tail(sents))
  ELSE SentenceKeys(LatticeKeys(acc, Strip(Head(sents)), 0), Tail(sents))

\* "for eojeol in text.split()" of MorphAnalyzer.analyze
RECURSIVE EojeolKeys(_, _)
EojeolKeys(acc, eojeols) ==
  IF acc.exc # "" \/ eojeols = <<>> THEN acc
  ELSE EojeolKeys(SentenceKeys(acc, SplitSentences(Head(eojeols))), Tail(eojeols))

\* the searches of analyzer.analyze(text)
analyze_keys(text) == EojeolKeys([exc |-> "", keys |-> <<>>], SplitWhitespace(text))

\* a task of the pool: the sentence, the keys its analyze searches and the
\* exception that ends it after them, the key it is at (k) and the statement
\* of the search it is at (pc), the results its searches returned (got), the
\* result it is about to cache (found) and the exception it raised
AtKey(keys, raises, k) ==
  IF k <= Len(keys) THEN "get" ELSE IF raises # "" THEN "raised" ELSE "done"

NewTask(text) ==
  LET Start(searches) ==
        [text |-> text, keys |-> searches.keys, raises |-> searches.exc, k |-> 1,
         pc |-> AtKey(searches.keys, searches.exc, 1), got |-> <<>>, found |-> <<>>,
         exc |-> IF searches.keys = <<>> THEN searches.exc ELSE ""]
  IN  Start(analyze_keys(text))

Key(task) == task.keys[task.k]

\* "return results" of search_all_patterns: the task goes on to its next
\* search, or to the end of analyze
Returned(task, results) ==
  [task EXCEPT !.got = Append(@, results), !.found = <<>>, !.k = @ + 1,
               !.pc = AtKey(task.keys, task.raises, task.k + 1),
               !.exc = IF task.k + 1 > Len(task.keys) THEN task.raises ELSE ""]

\* an exception leaves analyze and ends the task
Raised(task, e) == [task EXCEPT !.pc = "raised", !.exc = e]

\* the caches after a thousand earlier searches of one-syllable texts that
\* match no word (쀁 쀂 쀃 ...), oldest first
Filler(k) == <<49152 + k>>
WarmMatchCache == [k \in 1..lru_capacity |-> <<Filler(k), <<>>>>]
WarmSearchCache == [key \in {Filler(k) : k \in 1..search_cache_max} |-> <<>>]

\* the sentences of a batch: 쀁, 가, 갔 and a와
BatchTexts == { <<49153>>, <<44032>>, <<44052>>, <<97, 50752>> }
BatchInputs == { <<a, b>> : a \in BatchTexts, b \in BatchTexts }

\* GPUBatchAnalyzer.__init__ over a MorphAnalyzer, and executor.map having
\* submitted one task per sentence
InitBatch ==
  \E use_double_array \in BOOLEAN, words \in Dictionaries, warm \in BOOLEAN,
     sentences \in BatchInputs :
    \E trie \in {build_comprehensive_trie(use_double_array, words)} :
        /\ warm => words # <<>>
        /\ analyzer = [use_double_array |-> use_double_array, decoded |-> <<>>]
        /\ dat = IF ~use_double_array THEN DoubleArrayTrie_init
                 ELSE IF warm THEN [trie.t EXCEPT !.search_cache = WarmSearchCache]
                 ELSE trie.t
        /\ pyt = IF use_double_array THEN Trie_init
                 ELSE IF warm THEN [trie.t EXCEPT !.match_cache = WarmMatchCache]
                 ELSE trie.t
        /\ inserted = [k \in 1..Len(words) |-> Effective(words[k])]
        /\ steps = 0
        /\ last = [NoCall EXCEPT !.arg = sentences]
        /\ pool = [w \in 1..Len(sentences) |-> NewTask(sentences[w])]

\* LRUCache.get "if key not in self.cache" (misses += 1; return None), and
\* DoubleArrayTrie.search_all_patterns "if not self._built: self.build()",
\* "if text in self._search_cache"
CacheContains ==
  \E w \in DOMAIN pool :
    /\ pool[w].pc = "get"
    /\ IF analyzer.use_double_array
       THEN \E b \in {DAT_ensure_built(dat)} :
              /\ dat' = b.t
              /\ pool' = [pool EXCEPT ![w] =
                            IF ~b.ok THEN Raised(@, "RuntimeError")
                            ELSE [@ EXCEPT !.pc =
                                    IF Key(pool[w]) \in DOMAIN b.t.search_cache
                                    THEN "read" ELSE "scan"]]
              /\ UNCHANGED pyt
       ELSE /\ pool' = [pool EXCEPT ![w].pc = IF LRU_has(pyt.match_cache, Key(pool[w]))
                                              THEN "hit" ELSE "scan"]
            /\ UNCHANGED <<dat, pyt>>
    /\ UNCHANGED <<inserted, steps, last, analyzer>>

\* LRUCache.get "self.hits += 1; self.cache.move_to_end(key)"
CacheTouch ==
  \E w \in DOMAIN pool :
    /\ pool[w].pc = "hit"
    /\ IF LRU_has(pyt.match_cache, Key(pool[w]))
       THEN /\ pyt' = [pyt EXCEPT !.match_cache = LRU_get(@, Key(pool[w]))]
            /\ pool' = [pool EXCEPT ![w].pc = "read"]
       ELSE /\ pool' = [pool EXCEPT ![w] = Raised(@, "KeyError")]
            /\ UNCHANGED pyt
    /\ UNCHANGED <<dat, inserted, steps, last, analyzer>>

\* LRUCache.get "return self.cache[key]", and DoubleArrayTrie
\* "return self._search_cache[text]"
CacheRead ==
  \E w \in DOMAIN pool :
    /\ pool[w].pc = "read"
    /\ pool' = [pool EXCEPT ![w] =
         IF analyzer.use_double_array
         THEN IF Key(@) \in DOMAIN dat.search_cache
              THEN Returned(@, dat.search_cache[Key(@)]) ELSE Raised(@, "KeyError")
         ELSE IF LRU_has(pyt.match_cache, Key(@))
              THEN Returned(@, LRU_value(pyt.match_cache, Key(@)))
              ELSE Raised(@, "KeyError")]
    /\ UNCHANGED <<dat, pyt, inserted, steps, last, analyzer>>

\* the scan of the text between the cache lookup and the cache store
Search ==
  \E w \in DOMAIN pool :
    /\ pool[w].pc = "scan"
    /\ IF analyzer.use_double_array
       THEN /\ pool' = [pool EXCEPT ![w] =
                 IF dat.len = 0 /\ Key(@) # <<>> THEN Raised(@, "IndexError")
                 ELSE [@ EXCEPT !.found = DAT_scan(dat, Key(pool[w]), 0, 0, <<>>),
                                !.pc = "len"]]
            /\ UNCHANGED pyt
       ELSE \E t \in {Trie_build_aho_corasick(pyt)} :
              /\ pyt' = t
              /\ pool' = [pool EXCEPT ![w] =
                   [@ EXCEPT !.found = Trie_scan(t, Key(pool[w]), 0, <<>>, <<>>),
                             !.pc = "put"]]
    /\ UNCHANGED <<dat, inserted, steps, last, analyzer>>

\* LRUCache.put "if key in self.cache"
CachePutContains ==
  \E w \in DOMAIN pool :
    /\ pool[w].pc = "put"
    /\ pool' = [pool EXCEPT ![w].pc = IF LRU_has(pyt.match_cache, Key(pool[w]))
                                      THEN "move" ELSE "set"]
    /\ UNCHANGED <<dat, pyt, inserted, steps, last, analyzer>>

\* LRUCache.put "self.cache.move_to_end(key)"
CachePutTouch ==
  \E w \in DOMAIN pool :
    /\ pool[w].pc = "move"
    /\ IF LRU_has(pyt.match_cache, Key(pool[w]))
       THEN /\ pyt' = [pyt EXCEPT !.match_cache = LRU_get(@, Key(pool[w]))]
            /\ pool' = [pool EXCEPT ![w].pc = "set"]
       ELSE /\ pool' = [pool EXCEPT ![w] = Raised(@, "KeyError")]
            /\ UNCHANGED pyt
    /\ UNCHANGED <<dat, inserted, steps, last, analyzer>>

\* "self.cache[key] = value": a key the OrderedDict holds keeps its place
OrderedDict_set(cache, key, value) ==
  IF LRU_has(cache, key)
  THEN [k \in 1..Len(cache) |-> IF cache[k][1] = key THEN <<key, value>> ELSE cache[k]]
  ELSE Append(cache, <<key, value>>)

\* LRUCache.put "self.cache[key] = value", and DoubleArrayTrie
\* "self._search_cache[text] = results" and "return results"
CacheStore ==
  \E w \in DOMAIN pool :
    /\ pool[w].pc = "set"
    /\ IF analyzer.use_double_array
       THEN /\ dat' = [dat EXCEPT !.search_cache = Put(@, Key(pool[w]), pool[w].found)]
            /\ pool' = [pool EXCEPT ![w] = Returned(@, @.found)]
            /\ UNCHANGED pyt
       ELSE /\ pyt' = [pyt EXCEPT !.match_cache =
                                    OrderedDict_set(@, Key(pool[w]), pool[w].found)]
            /\ pool' = [pool EXCEPT ![w].pc = "len"]
            /\ UNCHANGED dat
    /\ UNCHANGED <<inserted, steps, last, analyzer>>

\* LRUCache.put "if len(self.cache) > self.capacity" and "return results",
\* and DoubleArrayTrie "if len(self._search_cache) < 1000"
CacheFull ==
  \E w \in DOMAIN pool :
    /\ pool[w].pc = "len"
    /\ pool' = [pool EXCEPT ![w] =
         IF analyzer.use_double_array
         THEN IF Cardinality(DOMAIN dat.search_cache) < search_cache_max
              THEN [@ EXCEPT !.pc = "set"] ELSE Returned(@, @.found)
         ELSE IF Len(pyt.match_cache) > lru_capacity
              THEN [@ EXCEPT !.pc = "pop"] ELSE Returned(@, @.found)]
    /\ UNCHANGED <<dat, pyt, inserted, steps, last, analyzer>>

\* LRUCache.put "self.cache.popitem(last=False)" and "return results"
CacheEvict ==
  \E w \in DOMAIN pool :
    /\ pool[w].pc = "pop"
    /\ IF pyt.match_cache # <<>>
       THEN /\ pyt' = [pyt EXCEPT !.match_cache = Tail(@)]
            /\ pool' = [pool EXCEPT ![w] = Returned(@, @.found)]
       ELSE /\ pool' = [pool EXCEPT ![w] = Raised(@, "KeyError")]
            /\ UNCHANGED pyt
    /\ UNCHANGED <<dat, inserted, steps, last, analyzer>>

\* the first exception in the order of the sentences, "" without one
RECURSIVE FirstRaised(_, _)
FirstRaised(tasks, w) ==
  IF w > Len(tasks) THEN ""
  ELSE IF tasks[w].pc = "raised" THEN tasks[w].exc ELSE FirstRaised(tasks, w + 1)

\* "results = list(executor.map(self.analyzer.analyze, sentences))": the
\* results in the order of the sentences, or the first exception in that
\* order.  The morphemes of a task are those its analyze decodes from the
\* search results the task received.
Collect ==
  /\ last.op = "none"
  /\ \A w \in DOMAIN pool : pool[w].pc \in {"done", "raised"}
  /\ last' = [op |-> "analyze_batch", arg |-> last.arg, ok |-> FirstRaised(pool, 1) = "",
              exc |-> FirstRaised(pool, 1),
              result |-> IF FirstRaised(pool, 1) # "" THEN <<>>
                         ELSE [w \in DOMAIN pool |-> pool[w].got],
              cached |-> FALSE]
  /\ steps' = steps + 1
  /\ UNCHANGED <<dat, pyt, inserted, analyzer, pool>>

NextBatch ==
  \/ CacheContains \/ CacheTouch \/ CacheRead \/ Search \/ CachePutContains
  \/ CachePutTouch \/ CacheStore \/ CacheFull \/ CacheEvict \/ Collect
SpecBatch == InitBatch /\ [][NextBatch]_vars

(***************************************************************************)
(* Properties of analyze_batch                                             *)
(***************************************************************************)
\* what the trie holds for a key, no cache consulted
Scanned(key) ==
  IF analyzer.use_double_array THEN DAT_scan(dat, key, 0, 0, <<>>)
  ELSE Trie_scan(pyt, key, 0, <<>>, <<>>)

\* C13: under every interleaving of the tasks of analyze_batch no call
\* raises, and every task decodes what a sequential analyze of its sentence
\* decodes: each of its searches returns what the trie holds for the key
C13_BatchAsSequential ==
  /\ \A w \in DOMAIN pool :
       /\ pool[w].exc = ""
       /\ \A k \in 1..Len(pool[w].got) : pool[w].got[k] = Scanned(pool[w].keys[k])
  /\ last.op = "analyze_batch" => last.ok

(***************************************************************************)
(* Decoding one text: an analyzer is constructed over one of the word      *)
(* lists below and analyze is called once on one text.                     *)
(***************************************************************************)
\* 가/VV/가다 and 습니다/EF, without and with ./SF
Polite ==
  << << <<44032>>, POS.VV, <<44032, 45796>> >>,
     << <<49845, 45768, 45796>>, POS.EF, <<49845, 45768, 45796>> >> >>
PoliteSF == Append(Polite, << <<46>>, POS.SF, <<46>> >>)

\* the vocabulary with 께선/JKS+JX/께서+는, the entry train_eojeol files for
\* the eojeol 께선 analysed as 께서/JKS and 는/JX
Contracted_particle ==
  Append(Vocabulary, << <<44760, 49440>>, POS.JKS \o <<43, 74, 88>>,
                        <<44760, 49436, 43, 45716>> >>)

DecodeDictionaries == { <<>>, Vocabulary, Polite, PoliteSF, Contracted_particle }

\* a run of n letters "a"
Run(n) == [k \in 1..n |-> 97]

\* "a", "aa", "ab", "Hello", 15, 16 and 17 letters, "a.", "ab!", "?", "3",
\* "漢", "가", "갔", "갔습니다", "갔습니다.", "가께선", "가다"
DecodeTexts ==
  { <<97>>, <<97, 97>>, <<97, 98>>, <<72, 101, 108, 108, 111>>,
    Run(15), Run(16), Run(17), <<97, 46>>, <<97, 98, 33>>, <<63>>, <<51>>,
    <<28450>>, <<44032>>, <<44052>>, <<44052, 49845, 45768, 45796>>,
    <<44052, 49845, 45768, 45796, 46>>, <<44032, 44760, 49440>>, <<44032, 45796>> }

\* MorphAnalyzer.__init__, the text of the call chosen with it
InitDecode ==
  \E use_double_array \in BOOLEAN, words \in DecodeDictionaries, text \in DecodeTexts :
    \E trie \in {build_comprehensive_trie(use_double_array, words)} :
        /\ analyzer = [use_double_array |-> use_double_array, decoded |-> <<>>]
        /\ pool = <<>>
        /\ dat = IF use_double_array THEN trie.t ELSE DoubleArrayTrie_init
        /\ pyt = IF use_double_array THEN Trie_init ELSE trie.t
        /\ inserted = [k \in 1..Len(words) |-> Effective(words[k])]
        /\ steps = 0
        /\ last = [NoCall EXCEPT !.arg = text]

\* MorphAnalyzer.analyze on the chosen text
Decode ==
  \E r \in {MorphAnalyzer_analyze(TheTrie, last.arg)} :
      /\ last.op = "none"
      /\ dat' = IF analyzer.use_double_array THEN r.trie.t ELSE dat
      /\ pyt' = IF analyzer.use_double_array THEN pyt ELSE r.trie.t
      /\ analyzer' = [analyzer EXCEPT !.decoded = r.decoded]
      /\ steps' = steps + 1
      /\ last' = [op |-> "analyze", arg |-> last.arg, ok |-> r.exc = "", exc |-> r.exc,
                  result |-> IF r.exc = "" THEN r.morphemes ELSE <<>>,
                  cached |-> FALSE]
      /\ UNCHANGED <<inserted, pool>>

NextDecode == Decode
SpecDecode == InitDecode /\ [][NextDecode]_vars

(***************************************************************************)
(* Properties of decoding                                                  *)
(***************************************************************************)
\* the text is one span of the decoder: one eojeol, one sentence
OneSpan(text) ==
  /\ text # <<>>
  /\ SplitWhitespace(text) = <<text>>
  /\ SplitSentences(text) = <<text>>

Occurs(word, text) ==
  \E a \in 0..(Len(text) - Len(word)) : Slice(text, a, a + Len(word)) = word

\* no dictionary word occurs in the text and no restored stem is in the
\* dictionary: only the out-of-vocabulary step proposes candidates
NoCandidate(text) ==
  /\ \A k \in DOMAIN inserted : ~Occurs(inserted[k][1], text)
  /\ \A k \in DOMAIN inserted :
       \A j \in DOMAIN analyze_keys(text).keys :
         analyze_keys(text).keys[j] # inserted[k][1]

\* C14: a span in which no dictionary or conjugation candidate applies is
\* decoded, without an exception, to exactly one morpheme, the whole span
\* tagged NNG, whatever its length
C14_OOVSpanIsOneNoun ==
  (last.op = "analyze" /\ OneSpan(last.arg) /\ NoCandidate(last.arg)) =>
    /\ last.ok
    /\ last.result = << Morph(last.arg, POS.NNG, last.arg, <<>>) >>

IsLatin(c) == (65 <= c /\ c <= 90) \/ (97 <= c /\ c <= 122)
Terminal == {46, 33, 63}
LatinAndTerminal(text) ==
  /\ text # <<>>
  /\ \A k \in 1..Len(text) : IsLatin(text[k]) \/ text[k] \in Terminal

\* the tags SL, SH, SN, SW
SymbolTags == { <<83, 76>>, <<83, 72>>, <<83, 78>>, <<83, 87>> }

\* C15: on a text of Latin letters and terminal punctuation only, analyze
\* returns Latin runs tagged SL and single terminal marks tagged SF; and
\* on a text without Hangul in which no candidate applies, every returned
\* morpheme carries one of SL, SH, SN, SW and none is a noun
C15_LatinTaggedSL ==
  /\ (last.op = "analyze" /\ LatinAndTerminal(last.arg)) =>
       /\ last.ok
       /\ \A k \in 1..Len(last.result) :
            \/ /\ last.result[k].pos = <<83, 76>>
               /\ \A j \in 1..Len(last.result[k].surface) :
                    IsLatin(last.result[k].surface[j])
            \/ /\ last.result[k].pos = POS.SF
               /\ Len(last.result[k].surface) = 1
               /\ last.result[k].surface[1] \in Terminal
  /\ ( /\ last.op = "analyze" /\ last.ok
       /\ \A k \in 1..Len(last.arg) : ~is_hangul(last.arg[k])
       /\ NoCandidate(last.arg) ) =>
       \A k \in 1..Len(last.result) : last.result[k].pos \in SymbolTags

InDictionary(surface, pos) ==
  \E k \in DOMAIN inserted : inserted[k][1] = surface /\ inserted[k][2] = pos

\* C16: with 가/VV and 습니다/EF in the dictionary, analyze("갔습니다.")
\* returns four morphemes: 가 tagged VV, 았 or 었 tagged EP, 습니다 tagged EF
\* and the period tagged SF
C16_PastPoliteDecoded ==
  ( /\ last.op = "analyze"
    /\ last.arg = <<44052, 49845, 45768, 45796, 46>>
    /\ InDictionary(<<44032>>, POS.VV)
    /\ InDictionary(<<49845, 45768, 45796>>, POS.EF) ) =>
    /\ last.ok
    /\ Len(last.result) = 4
    /\ last.result[1].surface = <<44032>> /\ last.result[1].pos = POS.VV
    /\ last.result[2].surface \in { <<50520>>, <<50632>> }
    /\ last.result[2].pos = POS.EP
    /\ last.result[3].surface = <<49845, 45768, 45796>>
    /\ last.result[3].pos = POS.EF
    /\ last.result[4].surface = <<46>> /\ last.result[4].pos = POS.SF

\* two neighbours of the list make a pair the validator rejects
Rejected(morphs) ==
  \E k \in 1..(Len(morphs) - 1) :
    ~is_valid_transition(morphs[k].pos, morphs[k + 1].pos)

\* C23: the morphemes decoded for a sentence, composites expanded, hold no
\* two neighbours whose tags make a pair of impossible_transitions
C23_NoRejectedTransition ==
  (last.op = "analyze" /\ last.ok) =>
    \A d \in 1..Len(analyzer.decoded) :
      ~Rejected(backtrack(analyzer.decoded[d][1], analyzer.decoded[d][2]))

(***************************************************************************)
(* Further properties of the pronunciation engine                          *)
(***************************************************************************)
\* syllable k ends in ㄱ, ㄷ or ㅂ and syllable k + 1 begins with a plain ㄱ,
\* ㄷ, ㅂ, ㅅ or ㅈ
ObstruentBeforePlain(text, k) ==
  /\ IsSyllable(text[k]) /\ IsSyllable(text[k + 1])
  /\ decompose(text[k])[3] \in {Jamo.g, Jamo.d, Jamo.b}
  /\ decompose(text[k + 1])[1] \in {Jamo.g, Jamo.d, Jamo.b, Jamo.s, Jamo.j}

\* C21: what pronounce returns has no syllable with final ㄱ, ㄷ or ㅂ
\* immediately followed by a syllable whose initial is a plain ㄱ, ㄷ, ㅂ, ㅅ
\* or ㅈ (the result is read after the assimilation stage, the last one)
C21_TenseAfterObstruent ==
  (last.op = "pronounce" /\ last.ok) =>
    \A k \in 1..(Len(last.result) - 1) : ~ObstruentBeforePlain(last.result, k)

\* a text with an obstruent final before a plain onset was pronounced
C21_Witness ==
  /\ last.op = "pronounce" /\ last.ok
  /\ \E k \in 1..(Len(last.arg) - 1) : ObstruentBeforePlain(last.arg, k)

\* the phonemes of a text after the aspiration stage alone
Aspirated(text) ==
  AspirationRule_apply([exc |-> "", phonemes |-> text_to_phonemes(text)]).phonemes

\* C25: where a syllable with final ㄺ, ㄼ or ㄵ is followed by a syllable
\* with initial ㅎ, the aspiration stage makes that initial ㅋ, ㅍ or ㅊ and
\* leaves ㄹ, ㄹ or ㄴ as the final of the first syllable
C25_ClusterAspirated ==
  last.op = "pronounce" =>
    \A k \in 1..(Len(last.arg) - 1) :
      ( /\ IsSyllable(last.arg[k]) /\ IsSyllable(last.arg[k + 1])
        /\ decompose(last.arg[k])[3] \in {Jamo.rg, Jamo.rb, Jamo.nj}
        /\ decompose(last.arg[k + 1])[1] = Jamo.h ) =>
      /\ Aspirated(last.arg)[k + 1].cho =
           ( IF decompose(last.arg[k])[3] = Jamo.rg THEN Jamo.k
             ELSE IF decompose(last.arg[k])[3] = Jamo.rb THEN Jamo.p ELSE Jamo.ch )
      /\ Aspirated(last.arg)[k].jong =
           ( IF decompose(last.arg[k])[3] = Jamo.nj THEN Jamo.n ELSE Jamo.r )

\* C29: a syllable with final ㅇ followed by a syllable with initial ㅇ:
\* pronounce returns both syllables as they were
C29_FinalIeungStays ==
  (last.op = "pronounce" /\ last.ok) =>
    \A k \in 1..(Len(last.arg) - 1) :
      ( /\ IsSyllable(last.arg[k]) /\ IsSyllable(last.arg[k + 1])
        /\ decompose(last.arg[k])[3] = Jamo.ng
        /\ decompose(last.arg[k + 1])[1] = Jamo.ng ) =>
      /\ last.result[k] = last.arg[k]
      /\ last.result[k + 1] = last.arg[k + 1]

\* the phonemes of a text after the stages up to liaison
AfterLiaison(text) ==
  LiaisonRule_apply(PalatalizationRule_apply(AspirationRule_apply(
    [exc |-> "", phonemes |-> text_to_phonemes(text)]))).phonemes

\* C30: where liaison moved a consonant out of a cluster final into the
\* onset of the next syllable, pronounce returns that syllable with the
\* onset liaison gave it: the tensification stage does not change it
C30_MovedConsonantStaysPlain ==
  (last.op = "pronounce" /\ last.ok) =>
    \A k \in 1..(Len(last.arg) - 1) :
      ( /\ IsSyllable(last.arg[k]) /\ IsSyllable(last.arg[k + 1])
        /\ split_cluster(decompose(last.arg[k])[3])[2] # 0
        /\ decompose(last.arg[k + 1])[1] = Jamo.ng
        /\ AfterLiaison(last.arg)[k + 1].cho # Jamo.ng ) =>
      decompose(last.result[k + 1])[1] = AfterLiaison(last.arg)[k + 1].cho

(***************************************************************************)
(* The assimilation stage on its own: AssimilationRule.apply is called     *)
(* once on the phonemes of one text of the bound.                          *)
(***************************************************************************)
Assimilate ==
  /\ last.op = "none"
  /\ \E r \in {AssimilationRule_apply([exc |-> "",
                                       phonemes |-> text_to_phonemes(last.arg)])} :
       last' = [op |-> "assimilate", arg |-> last.arg, ok |-> TRUE, exc |-> "",
                result |-> r.phonemes, cached |-> FALSE]
  /\ steps' = steps + 1
  /\ UNCHANGED <<dat, pyt, inserted, analyzer, pool>>

NextAssim == Assimilate
SpecAssim == InitPron /\ [][NextAssim]_vars

\* the number of passes of the "while changed and limit > 0" loop
RECURSIVE AssimilationPasses(_, _)
AssimilationPasses(a, limit) ==
  IF a.changed /\ limit > 0
  THEN 1 + AssimilationPasses(AssimilationPass(a.phonemes), limit - 1)
  ELSE 0

\* C28: the assimilation stage makes at most three passes, and one more
\* pass over the phonemes it leaves changes none of them
C28_AssimilationStable ==
  last.op = "assimilate" =>
    /\ AssimilationPasses([phonemes |-> text_to_phonemes(last.arg), changed |-> TRUE],
                          assimilation_limit) <= 3
    /\ AssimilationPass(last.result).phonemes = last.result

\* the stage changed a phoneme: a first pass that changes and a second that
\* finds the sequence stable
C28_Witness ==
  /\ last.op = "assimilate"
  /\ last.result # text_to_phonemes(last.arg)
  /\ AssimilationPasses([phonemes |-> text_to_phonemes(last.arg), changed |-> TRUE],
                        assimilation_limit) = 2

(***************************************************************************)
(* The dictionary archive (grammar/kg_format.py).  A file is the sequence  *)
(* of its bytes; f.read(n) at position pos is Read(bytes, pos, n), which   *)
(* is short or empty at the end of the file.                               *)
(***************************************************************************)
MAGIC == <<75, 76, 71, 77>>
HEADER_SIZE == 16

\* f.seek(pos); f.read(n)
Read(f, at, n) ==
  IF at >= Len(f) \/ n = 0 THEN <<>>
  ELSE SubSeq(f, at + 1, Min2(at + n, Len(f)))

\* struct.unpack('<H', b) and struct.unpack('<Q', b): little-endian, -1 for
\* struct.error on a buffer of the wrong length
RECURSIVE LittleEndian(_)
LittleEndian(b) ==
  IF b = <<>> THEN 0 ELSE b[1] + 256 * LittleEndian(Tail(b))
unpack(b, width) == IF Len(b) # width THEN -1 ELSE LittleEndian(b)

\* bytes.decode('utf-8') from the k-th byte on, acc the code points decoded
\* so far: [exc, val]
RECURSIVE utf8_decode(_, _, _)
utf8_decode(b, k, acc) ==
  LET Cont(j) == j <= Len(b) /\ 128 <= b[j] /\ b[j] <= 191
  IN  IF k > Len(b) THEN Returns(acc)
      ELSE IF b[k] < 128 THEN utf8_decode(b, k + 1, Append(acc, b[k]))
      ELSE IF 194 <= b[k] /\ b[k] <= 223 /\ Cont(k + 1)
      THEN utf8_decode(b, k + 2, Append(acc, (b[k] - 192) * 64 + (b[k + 1] - 128)))
      ELSE IF /\ 224 <= b[k] /\ b[k] <= 239 /\ Cont(k + 1) /\ Cont(k + 2)
              /\ (b[k] = 224 => b[k + 1] >= 160) /\ (b[k] = 237 => b[k + 1] <= 159)
      THEN utf8_decode(b, k + 3, Append(acc, (b[k] - 224) * 4096 + (b[k + 1] - 128) * 64
                                               + (b[k + 2] - 128)))
      ELSE IF /\ 240 <= b[k] /\ b[k] <= 244 /\ Cont(k + 1) /\ Cont(k + 2) /\ Cont(k + 3)
              /\ (b[k] = 240 => b[k + 1] >= 144) /\ (b[k] = 244 => b[k + 1] <= 143)
      THEN utf8_decode(b, k + 4, Append(acc, (b[k] - 240) * 262144
                                               + (b[k + 1] - 128) * 4096
                                               + (b[k + 2] - 128) * 64 + (b[k + 3] - 128)))
      ELSE Raises("UnicodeDecodeError")

\* "for _ in range(file_count)": the file table read from position pos on;
\* [exc, val], val the list of <<filename, file_size, offset>>
RECURSIVE file_entries(_, _, _, _)
file_entries(f, pos, file_count, acc) ==
  LET name_len == unpack(Read(f, pos, 2), 2)
      name == Read(f, pos + 2, name_len)
      next == Min2(pos + 2 + name_len, Max2(Len(f), pos + 2))
      file_size == unpack(Read(f, next, 8), 8)
      offset == unpack(Read(f, next + 8, 8), 8)
  IN  IF file_count = 0 THEN Returns(acc)
      ELSE IF name_len = -1 THEN Raises("struct.error")
      ELSE IF utf8_decode(name, 1, <<>>).exc # "" THEN Raises(utf8_decode(name, 1, <<>>).exc)
      ELSE IF file_size = -1 \/ offset = -1 THEN Raises("struct.error")
      ELSE file_entries(f, next + 16, file_count - 1,
                        Append(acc, <<utf8_decode(name, 1, <<>>).val, file_size, offset>>))

\* KGFormat.decode with KGFormat._read_header: [exc, val], val the list of
\* <<filename, data>>
KGFormat_decode(bytes) ==
  LET magic == Read(bytes, 0, 4)
      version == Read(bytes, 4, 2)
      count == unpack(Read(bytes, 6, 2), 2)
      table == file_entries(bytes, Min2(HEADER_SIZE, Len(bytes)), count, <<>>)
  IN  IF Len(version) # 2 \/ count = -1 THEN Raises("struct.error")
      ELSE IF magic # MAGIC THEN Raises("ValueError")
      ELSE IF table.exc # "" THEN table
      ELSE Returns([k \in 1..Len(table.val) |->
                      <<table.val[k][1], Read(bytes, table.val[k][3], table.val[k][2])>>])

(***************************************************************************)
(* Decoding one archive: the file is written with a magic number, a file   *)
(* count, a file table and a data section chosen below, and decode is      *)
(* called once on it.                                                      *)
(***************************************************************************)
MaxDeclared == 3

\* struct.pack('<H', n) and struct.pack('<Q', n) for n < 65536
pack(n, width) == [k \in 1..width |-> IF k = 1 THEN n % 256
                                      ELSE IF k = 2 THEN n \div 256 ELSE 0]

\* a table entry as written: the name bytes, the declared size and the
\* declared offset; d = -1 declares offset 0, d >= 0 the d-th byte of the
\* data section
RECURSIVE TableBytes(_, _)
TableBytes(table, data_start) ==
  IF table = <<>> THEN <<>>
  ELSE pack(Len(Head(table)[1]), 2) \o Head(table)[1] \o pack(Head(table)[2], 8)
         \o pack(IF Head(table)[3] = -1 THEN 0 ELSE data_start + Head(table)[3], 8)
         \o TableBytes(Tail(table), data_start)

TableSize(table) == FoldSeq(LAMBDA n, e : n + 2 + Len(e[1]) + 16, 0, table)

Archive(magic, file_count, table, data) ==
  magic \o <<0, 1>> \o pack(file_count, 2) \o [k \in 1..8 |-> 0]
        \o TableBytes(table, HEADER_SIZE + TableSize(table)) \o data

\* names "a" and the byte 0xFF, sizes and offsets up to the bound
ArchiveEntries ==
  { <<name, size, d>> : name \in { <<97>>, <<255>> },
                        size \in 0..MaxDeclared, d \in -1..MaxDeclared }
ArchiveTables ==
  { <<>> } \cup { <<e>> : e \in ArchiveEntries }
           \cup { <<e, f>> : e \in ArchiveEntries, f \in ArchiveEntries }
ArchiveData == { <<>>, <<120>>, <<120, 121>> }

InitArchive ==
  /\ dat = DoubleArrayTrie_init
  /\ pyt = Trie_init
  /\ inserted = <<>>
  /\ steps = 0
  /\ analyzer = NoAnalyzer
  /\ pool = <<>>
  /\ \E magic \in { MAGIC, <<88, 76, 71, 77>> }, table \in ArchiveTables,
        data \in ArchiveData, extra \in 0..1 :
       last = [NoCall EXCEPT !.arg = Archive(magic, Len(table) + extra, table, data)]

\* KGFormat.decode on the file
DecodeArchive ==
  /\ last.op = "none"
  /\ \E r \in {KGFormat_decode(last.arg)} :
       last' = [op |-> "decode", arg |-> last.arg, ok |-> r.exc = "", exc |-> r.exc,
                result |-> r.val, cached |-> FALSE]
  /\ steps' = steps + 1
  /\ UNCHANGED <<dat, pyt, inserted, analyzer, pool>>

NextArchive == DecodeArchive
SpecArchive == InitArchive /\ [][NextArchive]_vars

(***************************************************************************)
(* Properties of the archive decoder                                       *)
(***************************************************************************)
\* the file table of an archive, as decode reads it
DeclaredTable(archive) ==
  file_entries(archive, Min2(HEADER_SIZE, Len(archive)),
               unpack(Read(archive, 6, 2), 2), <<>>)

\* the file has a header and a readable table, and its magic is wrong or an
\* entry declares bytes beyond the end of the file
WrongMagic(archive) == Len(archive) >= HEADER_SIZE /\ Read(archive, 0, 4) # MAGIC
DeclaredOutside(archive) ==
  /\ Len(archive) >= HEADER_SIZE
  /\ DeclaredTable(archive).exc = ""
  /\ \E k \in 1..Len(DeclaredTable(archive).val) :
       \/ DeclaredTable(archive).val[k][3] > Len(archive)
       \/ DeclaredTable(archive).val[k][3] + DeclaredTable(archive).val[k][2] > Len(archive)

\* C22: decode of an archive with a wrong magic number, or with a table
\* entry whose offset or size lies outside the file, raises; it returns no
\* file list
C22_CorruptArchiveRejected ==
  (last.op = "decode" /\ (WrongMagic(last.arg) \/ DeclaredOutside(last.arg))) =>
    ~last.ok

(***************************************************************************)
(* Restoring one surface: restore_any or restore_verb_stem is called once  *)
(* on a surface chosen below.                                              *)
(***************************************************************************)
\* 불러, 불라, 올러, 올라, ...: the registered 르 stems with ㄹ under the
\* first syllable, followed by 러 or 라
ReuSurfaces ==
  { <<IrregularConjugation.reu_irregular[k][1] + 8, e>> :
      k \in DOMAIN IrregularConjugation.reu_irregular, e \in {47084, 46972} }

\* nothing, 도, 배, 걸어
RestorePrefixes == { <<>>, <<46020>>, <<48176>>, <<44152, 50612>> }

\* a prefix and a last syllable of ㄱ ㅂ ㅇ ㅈ, one of eleven medials, and
\* no final, ㅆ or ㄱ
RestoreSurfaces ==
  ReuSurfaces \cup
  { prefix \o <<compose(cho, jung, jong)>> :
      prefix \in RestorePrefixes,
      cho \in {12593, 12610, 12615, 12616},
      jung \in {12623, 12624, 12627, 12628, 12629, 12631, 12632, 12636,
                12637, 12641, 12643},
      jong \in {0, 12614, 12593} }

InitRestore ==
  /\ dat = DoubleArrayTrie_init
  /\ pyt = Trie_init
  /\ inserted = <<>>
  /\ steps = 0
  /\ analyzer = NoAnalyzer
  /\ pool = <<>>
  /\ \E surface \in RestoreSurfaces : last = [NoCall EXCEPT !.arg = surface]

\* IrregularConjugation.restore_any on the surface
RestoreAny ==
  /\ last.op = "none"
  /\ \E r \in {restore_any(last.arg)} :
       last' = [op |-> "restore_any", arg |-> last.arg, ok |-> r.exc = "",
                exc |-> r.exc, result |-> r.val, cached |-> FALSE]
  /\ steps' = steps + 1
  /\ UNCHANGED <<dat, pyt, inserted, analyzer, pool>>

\* ConjugationAnalyzer.restore_verb_stem on the surface
RestoreVerbStem ==
  /\ last.op = "none"
  /\ \E r \in {restore_verb_stem(last.arg)} :
       last' = [op |-> "restore_verb_stem", arg |-> last.arg, ok |-> r.exc = "",
                exc |-> r.exc, result |-> r.val, cached |-> FALSE]
  /\ steps' = steps + 1
  /\ UNCHANGED <<dat, pyt, inserted, analyzer, pool>>

NextRestore == RestoreAny \/ RestoreVerbStem
SpecRestore == InitRestore /\ [][NextRestore]_vars

(***************************************************************************)
(* Properties of restoration                                               *)
(***************************************************************************)
\* the surface is the k-th registered 르 stem with ㄹ under its first
\* syllable, followed by 러 or 라
FromReuRoot(surface, k) ==
  /\ Len(surface) = 2
  /\ surface[1] = IrregularConjugation.reu_irregular[k][1] + 8
  /\ surface[2] \in {47084, 46972}

\* 어 after 러, 아 after 라
ReuEnding(surface) == IF surface[2] = 47084 THEN <<50612>> ELSE <<50500>>

\* C26: for a surface formed from a registered 르 stem, restore_reu_irregular
\* returns the stem in 르 with the ending 어 or 아, and restore_any returns
\* that candidate
C26_ReuRestored ==
  \A k \in DOMAIN IrregularConjugation.reu_irregular :
    (last.op = "restore_any" /\ FromReuRoot(last.arg, k)) =>
      /\ restore_reu_irregular(last.arg)
           = <<IrregularConjugation.reu_irregular[k], ReuEnding(last.arg)>>
      /\ last.ok
      /\ last.result = <<IrregularConjugation.reu_irregular[k], ReuEnding(last.arg)>>

\* the medials of the 아 series and of the 어 series
A_series == {12623, 12631, 12632}
Eo_series == {12627, 12636, 12637, 12643, 12628, 12624}

\* the last syllable of the surface ends in ㅆ over a medial of one of the
\* two series, or is open with the medial ㅘ or ㅝ
Contracted(surface) ==
  /\ surface # <<>>
  /\ decompose(surface[Len(surface)])[1] > 0
  /\ \/ /\ decompose(surface[Len(surface)])[3] = 12614
        /\ decompose(surface[Len(surface)])[2] \in A_series \cup Eo_series
     \/ /\ decompose(surface[Len(surface)])[3] = 0
        /\ decompose(surface[Len(surface)])[2] \in {12632, 12637}

\* the stem with the uncontracted medial, and the ending vowel harmony selects
Uncontracted(surface) ==
  LET d == decompose(surface[Len(surface)])
  IN  SubSeq(surface, 1, Len(surface) - 1)
        \o <<compose(d[1], IF d[2] = 12632 THEN 12631
                           ELSE IF d[2] = 12637 THEN 12636 ELSE d[2], 0)>>
Harmony(surface) ==
  LET d == decompose(surface[Len(surface)])
  IN  IF d[3] = 12614 THEN (IF d[2] \in A_series THEN <<50520>> ELSE <<50632>>)
      ELSE (IF d[2] \in A_series THEN <<50500>> ELSE <<50612>>)

\* 아, 어, 았, 었
RegularEndings == { <<50500>>, <<50612>>, <<50520>>, <<50632>> }

\* C27: for a surface whose last syllable is a ㅆ-final syllable or an open
\* syllable with ㅘ or ㅝ, restore_verb_stem returns the candidate of the
\* uncontracted stem with the ending of vowel harmony, and every returned
\* candidate has one of the endings 아, 어, 았, 었
C27_ContractionRestored ==
  (last.op = "restore_verb_stem" /\ Contracted(last.arg)) =>
    /\ last.ok
    /\ \E k \in 1..Len(last.result) :
         last.result[k] = <<Uncontracted(last.arg), Harmony(last.arg)>>
    /\ \A k \in 1..Len(last.result) : last.result[k][2] \in RegularEndings

(***************************************************************************)
(* The cheapest segmentation of a span.  An edge <<j, cost, tag>> is a     *)
(* candidate the decoder admits from position i after the trailing tag     *)
(* prev: it ends at j, adds cost and leaves the trailing tag.              *)
(***************************************************************************)
\* the decoder state with position i alone reached, at cost 0 after prev
Fresh(trie, n, i, prev) ==
  [dp |-> [k \in 0..n |-> IF k = i THEN <<0>> ELSE <<>>],
   path |-> [k \in 0..n |-> <<>>],
   prev_pos |-> [k \in 0..n |-> IF k = i THEN prev ELSE <<>>],
   trie |-> trie, exc |-> ""]

\* what one admission step filed at j
Edge(st, j) ==
  IF st.exc # "" \/ st.dp[j] = <<>> THEN {} ELSE { <<j, st.dp[j][1], st.prev_pos[j]>> }

\* the dictionary candidates among the matches r
DictEdgesOf(st, sentence, i, r) ==
  IF ~r.ok THEN {}
  ELSE UNION { UNION { Edge(DictCandidate(st, sentence, i, i + r.result[t][2],
                                          r.result[t][3][q][1], r.result[t][3][q][2]),
                            i + r.result[t][2]) :
                       q \in DOMAIN r.result[t][3] } :
               t \in {u \in DOMAIN r.result : r.result[u][1] = 0} }
DictEdges(st, sentence, i) ==
  DictEdgesOf(st, sentence, i,
              search_all_patterns(st.trie, Slice(sentence, i, Min2(i + 16, Len(sentence)))))

\* the conjugation candidates among the restorations c of sentence[i:j]
ConjEdgesOf(st, sentence, i, j, c) ==
  IF c.exc # "" THEN {}
  ELSE UNION { Edge(ConjCandidate(st, i, j, Slice(sentence, i, j), c.val[k][1], c.val[k][2]), j) :
               k \in {m \in DOMAIN c.val : c.val[m][2] # <<>>} }
ConjEdges(st, sentence, i) ==
  UNION { ConjEdgesOf(st, sentence, i, j, restore_verb_stem(Slice(sentence, i, j))) :
          j \in (i + 1)..(Min2(i + 8, Len(sentence) + 1) - 1) }

\* the out-of-vocabulary candidates
OOVEdges(sentence, i) ==
  { <<j, COST_OOV, POS.NNG>> : j \in (i + 1)..(Min2(i + 16, Len(sentence) + 1) - 1) }

Edges(trie, sentence, i, prev) ==
  DictEdges(Fresh(trie, Len(sentence), i, prev), sentence, i)
    \cup ConjEdges(Fresh(trie, Len(sentence), i, prev), sentence, i)
    \cup OOVEdges(sentence, i)

\* the tags a candidate can leave: none, the tags of the conjugation and
\* out-of-vocabulary candidates, the last part of every dictionary tag
TrailingTags ==
  { <<>>, POS.NNG, POS.EP, POS.EF, POS.EC, POS.ETM }
    \cup { Split(inserted[k][2], 43)[Len(Split(inserted[k][2], 43))] : k \in DOMAIN inserted }

\* table[k][tag] for k > i: the least cost of a chain of edges from k to
\* the end of the sentence after the trailing tag; the rows from i down to 0
\* are filled in
RECURSIVE Cheapest(_, _, _, _)
Cheapest(trie, sentence, i, table) ==
  IF i < 0 THEN table
  ELSE Cheapest(trie, sentence, i - 1,
                [table EXCEPT ![i] =
                   [prev \in TrailingTags |->
                      SetMin({ e[2] + table[e[1]][e[3]] : e \in Edges(trie, sentence, i, prev) })]])

MinCost(span) ==
  Cheapest(TheTrie, span, Len(span) - 1,
           [k \in 0..Len(span) |-> [prev \in TrailingTags |-> 0]])[0][<<>>]

\* dp[n] of the decoder on the span
DecodedCost(span) == analyze_sentence(TheTrie, span).dp[Len(span)][1]

\* the spans analyze decodes: the sentences of every eojeol
Spans(text) ==
  SelectSeq(FoldSeq(LAMBDA a, e : a \o [k \in 1..Len(SplitSentences(e)) |->
                                          Strip(SplitSentences(e)[k])],
                    <<>>, SplitWhitespace(text)),
            LAMBDA s : s # <<>>)

\* C24: for every span of the text, the cost of the segmentation the decoder
\* returns is the least cost of any chain of dictionary, conjugation and
\* out-of-vocabulary candidates with valid transitions that covers the span
C24_DecodedCostMinimal ==
  (last.op = "analyze" /\ last.ok) =>
    \A k \in 1..Len(Spans(last.arg)) :
      DecodedCost(Spans(last.arg)[k]) = MinCost(Spans(last.arg)[k])

====
